---- MODULE Spec2Model ----
(***************************************************************************)
(* Job orchestration and segment-processing pipeline of JRE-clipper.       *)
(*                                                                         *)
(* The model follows the Pub/Sub consumer                                  *)
(* (frontend-firebase/video-processor-CloudRun-Function/                   *)
(* main_moviepy_pubsubhandler.py) statement by statement wherever it       *)
(* writes the job record, and the HTTP handlers that create, resume and    *)
(* enqueue jobs (main_moviepy.py of both deployments) as one action each.  *)
(*                                                                         *)
(* What the environment decides is a nondeterministic choice at the place  *)
(* the code asks for it: the bucket listing, the FUSE lookup, ffprobe and  *)
(* ffmpeg exit status, the upload, the signing of the URL, the expiry of   *)
(* the per-video timer and the redelivery of a message.                    *)
(***************************************************************************)
EXTENDS Integers, Sequences, FiniteSets, TLC

\* ---------------------------------------------------------------- bounds
MaxSegs == 3            \* longest segments list of a request
MaxSegsWithoutAcquisition == 2   \* the same, deployment without acquisition
MaxDeliveries == 2      \* deliveries of work messages (at-least-once)
MaxResumes == 1         \* resumeVideoJob requests
MaxJobs == 1            \* job records created
MaxFaults == 1          \* faults of the environment in one behaviour
MaxBlobs == 3           \* longest listing of the source bucket

\* ------------------------------------------------------------ input sets
Videos == {"A", "B", "C"}

\* duration ffprobe reports for every source asset
VideoDuration == 2

Segment(v, start, end) ==
  [videoId |-> v, startTimeSeconds |-> start, endTimeSeconds |-> end]

\* The segments a request is made of.  A: a segment that ends beyond the
\* asset and one that lies before it; B: a good segment and one with
\* end <= start; C: a good segment.
SegmentSet ==
  {Segment("A", 1, 3), Segment("A", 0, 1),
   Segment("B", 0, 1), Segment("B", 1, 1),
   Segment("C", 0, 1)}

Requests == UNION {[1..n -> SegmentSet] : n \in 1..MaxSegs}

RequestsWithoutAcquisition ==
  UNION {[1..n -> SegmentSet] : n \in 1..MaxSegsWithoutAcquisition}

JobIds == 1..MaxJobs

\* A request body of processVideoJob.  kind: "no_json" when get_json gives
\* nothing, "no_segments" when the JSON has no segments key, "not_a_list"
\* when segments is not a list, "list" otherwise.  A segment without a
\* videoId has videoId "".
Body(kind, segs) == [kind |-> kind, segments |-> segs]

\* the malformed request bodies
BadRequests ==
  {Body("no_json", <<>>), Body("no_segments", <<>>), Body("not_a_list", <<>>),
   Body("list", <<>>),
   Body("list", <<Segment("", 0, 1)>>),
   Body("list", <<Segment("A", 0, 1), Segment("", 0, 1)>>)}

\* the body of a request that has no segments (resumeVideoJob, the webhook)
NoBody == Body("none", <<>>)

\* ------------------------------------------ names of the source bucket
\* An object name of jre-all-episodes, by the shape the patterns tell apart:
\* "exact" is {id}.mp4, "suffix" is {id}_{title}.mp4, "double" is
\* {id}_{title}.mp4.mp4, "other" is {id}_{title}.webm, "nested" is
\* {id}_{title}/{part}.mp4 (a title with a slash) and "folder" is
\* {folder}/{id}.mp4.
Blob(id, form) == [id |-> id, form |-> form]

BlobForms == {"exact", "suffix", "double", "other", "nested", "folder"}

BlobNames == {Blob(id, form) : id \in {"A", "B"}, form \in BlobForms}

\* found_blob = None
NoBlob == Blob("", "none")

\* the listings: sequences of distinct names
Listings ==
  {l \in UNION {[1..n -> BlobNames] : n \in 0..MaxBlobs} :
     \A a \in 1..Len(l), b \in 1..Len(l) : a # b => l[a] # l[b]}

\* the arguments of check_existing_videos_in_gcs: lists of distinct ids
VideoIdLists == {<<>>, <<"A">>, <<"B">>, <<"A", "B">>, <<"B", "A">>}

\* ------------------------------------------------------- absent values
NoProgress == -1        \* progress=None / field not present
NoText == ""            \* message=None, error=None / field not present
NoUrl == <<>>           \* video_url=None / finalVideoUrl not present
NoSuggestions == <<>>   \* suggestions=None / field not present
NoStatus == "Absent"    \* no document with this id in videoJobs
NoRun == "none"         \* no actor run with this id

\* what a job document says of a failure
Failure(d) == [status |-> d.status, error |-> d.error, suggestions |-> d.suggestions]

\* the job was never resumed
NoResume == [status |-> NoStatus, error |-> NoText, suggestions |-> NoSuggestions]

\* the statuses of an Apify actor run, and those a run ends with
RunStatuses == {"RUNNING", "SUCCEEDED", "FAILED", "TIMED-OUT", "ABORTED"}

NoJob ==
  [status |-> NoStatus, progress |-> NoProgress, progressMessage |-> NoText,
   error |-> NoText, finalVideoUrl |-> NoUrl, suggestions |-> NoSuggestions,
   videoIds |-> <<>>, segments |-> <<>>, originalSegments |-> <<>>,
   videosAlreadyAvailable |-> <<>>, videosNeedingDownload |-> <<>>,
   videosAvailable |-> <<>>, videosMissing |-> <<>>]

VARIABLES
  jobs,        \* Firestore collection videoJobs: job id -> document
  queue,       \* Pub/Sub topic video-editing-job: messages not yet delivered
  bucket,      \* objects of BUCKET_NAME written by upload_to_gcs: key, the job
               \* whose execution wrote it, and how often the key was written
  w,           \* the consumer instance: position and locals of process_video_job
  nextJob,     \* number of job ids handed out so far
  deliveries,  \* number of deliveries so far
  resumes,     \* number of resumeVideoJob requests so far
  faults,      \* number of environment faults so far
  http,        \* the latest HTTP exchange of a dispatcher: handler, request
               \* body, response code and the jobId of the response
  video_ids,   \* check_existing_videos_in_gcs: its argument,
  blobs_list,  \* the names list_blobs returned, in the order of the listing,
  existing_videos, \* and the dict it returned
  apify_runs,  \* Apify: run id (= job id) -> status of the actor run
  resumed      \* job id -> what job_data of resumeVideoJob said of a failure

\* the variables of a call of check_existing_videos_in_gcs on its own
index == <<video_ids, blobs_list, existing_videos>>

vars == <<jobs, queue, bucket, w, nextJob, deliveries, resumes, faults, http,
          video_ids, blobs_list, existing_videos, apify_runs, resumed>>

\* ----------------------------------------------------------- sequences
unique_video_ids_with_duplicates(segs) ==
  [n \in 1..Len(segs) |-> segs[n].videoId]

RECURSIVE unique_video_ids(_)
\* ids of a segments list without duplicates, in order of first appearance
unique_video_ids(segs) ==
  IF segs = <<>> THEN <<>>
  ELSE LET front == unique_video_ids(SubSeq(segs, 1, Len(segs) - 1))
           v == segs[Len(segs)].videoId
       IN IF \E i \in 1..Len(front) : front[i] = v THEN front
          ELSE Append(front, v)

Range(s) == {s[i] : i \in 1..Len(s)}

\* segments of a list whose videoId is in a given set, order kept
available_segments(segs, avail) ==
  SelectSeq(segs, LAMBDA s : s.videoId \in avail)

FilterIds_keeps_all(ids, keep) == ids

\* ids of a list that are in a given set, order kept
FilterIds(ids, keep) == SelectSeq(ids, LAMBDA v : v \in keep)

\* ---------------------------------------------------- Availability Index
\* video_patterns of the deployment without acquisition, in list order:
\* ^{id}_.*\.mp4\.mp4$, ^{id}_.*\.mp4$, ^{id}\.mp4$
video_patterns == <<"double", "suffix", "exact">>

\* video_pattern of the deployment with acquisition: ^{id}_.*\.mp4\.mp4$
video_pattern == <<"double">>

\* re.match(pattern, blob.name): a name that ends in .mp4.mp4 also matches
\* the pattern that ends in .mp4, and so does one with a slash after the
\* id, since . matches it; a name that begins with a folder matches none.
pattern_matches(pattern, video_id, blob) ==
  /\ blob.id = video_id
  /\ CASE pattern = "double" -> blob.form = "double"
       [] pattern = "suffix" -> blob.form \in {"suffix", "double", "nested"}
       [] pattern = "exact" -> blob.form = "exact"
       [] OTHER -> FALSE

RECURSIVE found_blob(_, _, _)
\* the loop over blobs_list: the first name of the listing that matches one
\* of the patterns, None when there is none
found_blob(video_id, blobs, patterns) ==
  IF blobs = <<>> THEN NoBlob
  ELSE IF \E n \in 1..Len(patterns) : pattern_matches(patterns[n], video_id, Head(blobs))
  THEN Head(blobs)
  ELSE found_blob(video_id, Tail(blobs), patterns)

check_existing_videos_in_gcs_empty_on_failure(ids, blobs, listed) ==
  IF listed THEN [v \in Range(ids) |-> found_blob(v, blobs, video_patterns)]
  ELSE [v \in {} |-> NoBlob]

\* check_existing_videos_in_gcs of the deployment without acquisition.
\* listed: list_blobs succeeded; otherwise the except clause answers.
check_existing_videos_in_gcs(ids, blobs, listed) ==
  IF listed THEN [v \in Range(ids) |-> found_blob(v, blobs, video_patterns)]
  ELSE [v \in Range(ids) |-> NoBlob]

\* check_existing_videos_in_gcs of the deployment with acquisition
check_existing_videos_in_gcs_with_acquisition(ids, blobs, listed) ==
  IF listed THEN [v \in Range(ids) |-> found_blob(v, blobs, video_pattern)]
  ELSE [v \in Range(ids) |-> NoBlob]

\* patterns_to_try of find_video_file_fuse, in list order: {id}.mp4,
\* {id}_*.mp4, {id}*.mp4 under the mount path, then the same three under
\* any folder of it
patterns_to_try ==
  <<"exact", "underscore", "prefix", "deep exact", "deep underscore", "deep prefix">>

\* glob.glob(pattern, recursive=True) on the mirror of the bucket: * does
\* not cross a slash, so the first three patterns match files at the top
\* only; **/ stands for any chain of folders, the empty one included, and
\* the rest of the pattern is matched against the file's own name.
glob_matches(pattern, video_id, blob) ==
  /\ blob.id = video_id
  /\ CASE pattern = "exact" -> blob.form = "exact"
       [] pattern = "underscore" -> blob.form \in {"suffix", "double"}
       [] pattern = "prefix" -> blob.form \in {"exact", "suffix", "double"}
       [] pattern = "deep exact" -> blob.form \in {"exact", "folder"}
       [] pattern = "deep underscore" -> blob.form \in {"suffix", "double"}
       [] pattern = "deep prefix" -> blob.form \in {"exact", "suffix", "double", "folder"}
       [] OTHER -> FALSE

\* current_matches of one pattern
current_matches(pattern, video_id, blobs) ==
  {b \in Range(blobs) : glob_matches(pattern, video_id, b)}

\* find_video_file_fuse on a mount that mirrors blobs: matching_files, the
\* matches of the first pattern that has any; the function returns one of
\* them, and raises FileNotFoundError when the set is empty.
find_video_file_fuse(video_id, blobs) ==
  LET hits == {n \in 1..Len(patterns_to_try) :
                 current_matches(patterns_to_try[n], video_id, blobs) # {}}
  IN IF hits = {} THEN {}
     ELSE current_matches(patterns_to_try[CHOOSE n \in hits : \A m \in hits : n <= m],
                          video_id, blobs)

\* the value of existing_videos before a call
NoCall == [by |-> "none", listed |-> TRUE, result |-> <<>>]

\* ------------------------------------------------------------ Job Store
\* update_job_status: a partial update of the document; a field is written
\* only when its argument is truthy (progress: when it is not None).
\* DocumentReference.update of a document that does not exist raises
\* NotFound, which the function logs and swallows.
update_job_status_replaces(js, job_id, status, progress, message, error, video_url, suggestions) ==
  IF js[job_id].status = NoStatus THEN js
  ELSE [js EXCEPT ![job_id] =
          [NoJob EXCEPT !.status = status, !.progress = progress,
                        !.progressMessage = message, !.error = error,
                        !.finalVideoUrl = video_url, !.suggestions = suggestions]]

update_job_status_drops_url(js, job_id, status, progress, message, error, video_url, suggestions) ==
  IF js[job_id].status = NoStatus THEN js
  ELSE [js EXCEPT ![job_id] =
          [@ EXCEPT !.status = status,
                    !.progress = IF progress # NoProgress THEN progress ELSE @,
                    !.progressMessage = IF message # NoText THEN message ELSE @,
                    !.error = IF error # NoText THEN error ELSE @,
                    !.suggestions = IF suggestions # NoSuggestions THEN suggestions ELSE @]]

update_job_status(js, job_id, status, progress, message, error, video_url, suggestions) ==
  IF js[job_id].status = NoStatus THEN js
  ELSE [js EXCEPT ![job_id] =
          [@ EXCEPT !.status = status,
                    !.progress = IF progress # NoProgress THEN progress ELSE @,
                    !.progressMessage = IF message # NoText THEN message ELSE @,
                    !.error = IF error # NoText THEN error ELSE @,
                    !.finalVideoUrl = IF video_url # NoUrl THEN video_url ELSE @,
                    !.suggestions = IF suggestions # NoSuggestions THEN suggestions ELSE @]]

\* --------------------------------------------------------- Pub/Sub topic
\* The message: data = json.dumps(job_data), attribute jobId.  createdAt is
\* the kind of value job_data carries under that key: NoText when the key
\* is not there, "datetime" for a Firestore timestamp, "iso" for a string.
Message(job_id, videoIds, segments, createdAt) ==
  [jobId |-> job_id, videoIds |-> videoIds, segments |-> segments,
   createdAt |-> createdAt]

\* json.dumps raises TypeError on a datetime value
JsonSerializable(msg) == msg.createdAt # "datetime"

\* serialize_job_data_for_pubsub: datetime values become ISO strings
serialize_job_data_for_pubsub(msg) ==
  [msg EXCEPT !.createdAt = IF @ = "datetime" THEN "iso" ELSE @]

\* the response of a dispatcher handler
Response(handler, body, code, job_id) ==
  [handler |-> handler, body |-> body, code |-> code, jobId |-> job_id]

\* no request yet
NoResponse == Response("none", NoBody, 0, 0)

\* ------------------------------------------------ consumer: initial state
\* What an execution of process_segments_for_job did: the assets it went
\* through, the clips, the failures, the file it uploaded and its URL, and
\* how process_video_job ended.
Result(attempted, clips, failed, final_video, public_url, result) ==
  [attempted |-> attempted, clips |-> clips, failed |-> failed,
   final_video |-> final_video, public_url |-> public_url, result |-> result]

\* no execution before this one
NoResult == Result(<<>>, <<>>, <<>>, <<>>, <<>>, "none")

Idle ==
  [pc |-> "idle", job_id |-> 0, videoIds |-> <<>>, segments |-> <<>>,
   createdAt |-> NoText,
   temp_dir |-> FALSE,
   order |-> <<>>,                  \* keys of segments_by_video, insertion order
   processed_videos |-> 0,
   progress_percent |-> 0,
   all_processed_segments |-> <<>>,
   failed_videos |-> <<>>,
   timer |-> "none",                \* video_timer: none, running, cancelled
   video_timeout_flag |-> FALSE,
   valid_segments |-> <<>>,
   total_segment_duration |-> 0,
   i |-> 0,
   segment_files |-> <<>>,
   exc |-> NoText,                  \* text of the exception being propagated
   runs |-> <<>>,                   \* codecs of the ffmpeg runs of the invocation
                                    \* that is failing: "copy", "reencode"
   final_video |-> <<>>,
   public_url |-> NoUrl,
   result |-> "none",               \* how process_video_job ended
   \* history of this execution
   wrote |-> {},                    \* statuses passed to update_job_status
   last |-> NoStatus,               \* status of the latest such call
   setUrl |-> FALSE,                \* a call passed video_url
   expired |-> {},                  \* assets whose timer expired during extraction
   lost |-> FALSE,                  \* a write of this execution failed
   previous |-> NoResult,           \* how the previous delivery of the message ended
   \* the instance
   firestore_client |-> "up",       \* "down": DocumentReference.update raises
   \* start_background_processing (main.py)
   timeout_flag |-> FALSE,
   timeout_timer |-> "none"]        \* none, running, fired, cancelled

Init ==
  /\ jobs = [j \in JobIds |-> NoJob]
  /\ queue = <<>>
  /\ bucket = {}
  /\ w = Idle
  /\ nextJob = 0
  /\ deliveries = 0
  /\ resumes = 0
  /\ faults = 0
  /\ http = NoResponse
  /\ video_ids = <<>>
  /\ blobs_list = <<>>
  /\ existing_videos = NoCall
  /\ apify_runs = [j \in JobIds |-> NoRun]
  /\ resumed = [j \in JobIds |-> NoResume]

\* ----------------------------------------------------------- environment
\* An outcome the environment decides: ok, or a fault, of which a behaviour
\* has at most MaxFaults.
Outcome(ok) ==
  /\ ~ok => faults < MaxFaults
  /\ faults' = IF ok THEN faults ELSE faults + 1

\* ------------------------------------------------------------ dispatcher
\* publish_video_processing_job of the deployment with acquisition: it
\* json.dumps the job data as given and raises when that or the publish
\* fails.  accepted: the topic took the message.
publish_raises_never(msg, accepted) == FALSE

publish_raises(msg, accepted) == ~(accepted /\ JsonSerializable(msg))

publish_video_processing_job_twice(q, msg) ==
  Append(Append(q, serialize_job_data_for_pubsub(msg)),
         serialize_job_data_for_pubsub(msg))

\* publish_video_processing_job of the deployment without acquisition, when
\* it does not raise: the timestamps are serialized first, then one message
\* is published
publish_video_processing_job(q, msg) ==
  Append(q, serialize_job_data_for_pubsub(msg))

request_error_ignores_videoId(body) ==
  IF body.kind = "no_json" THEN "Invalid JSON payload"
  ELSE IF body.kind # "list" \/ body.segments = <<>>
  THEN "The function must be called with a segments array"
  ELSE NoText

\* processVideoJob, the checks before anything is created: the error of the
\* 400 response, NoText for a well-formed request
request_error(body) ==
  IF body.kind = "no_json" THEN "Invalid JSON payload"
  ELSE IF body.kind # "list" \/ body.segments = <<>>
  THEN "The function must be called with a segments array"
  ELSE IF \E n \in 1..Len(body.segments) : body.segments[n].videoId = NoText
  THEN "videoId is required in all segments"
  ELSE NoText

\* videos_available of the deployment without acquisition: the ids whose
\* entry in existing_videos is a name.  avail: the ids with such an entry.
videos_available(unique, avail) == FilterIds(unique, avail)

videos_missing_unfiltered(unique, avail) == unique

\* videos_missing: the other ids
videos_missing(unique, avail) == FilterIds(unique, Range(unique) \ avail)

\* processVideoJob (deployment with acquisition).
\* avail: the ids check_existing_videos_in_gcs finds in the bucket listing;
\* started: the Apify actor run was started.
processVideoJob(body, avail, accepted, started) ==
  LET request == body.segments
      unique == unique_video_ids(request)
      videos_already_available == FilterIds(unique, avail)
      videos_needing_download == FilterIds(unique, Range(unique) \ avail)
      job_id == nextJob + 1
      doc(status) == [NoJob EXCEPT !.status = status, !.videoIds = unique,
                                   !.segments = request,
                                   !.videosAlreadyAvailable = videos_already_available,
                                   !.videosNeedingDownload = videos_needing_download]
      respond(code, id) == http' = Response("processVideoJob", body, code, id)
  IN
  IF request_error(body) # NoText
  THEN /\ respond(400, 0)
       /\ UNCHANGED <<jobs, queue, bucket, w, nextJob, deliveries, resumes, faults, index, apify_runs, resumed>>
  ELSE
  /\ nextJob < MaxJobs
  /\ Outcome(IF videos_needing_download = <<>> THEN accepted ELSE started)
  /\ IF videos_needing_download = <<>>
     THEN
       LET js1 == [jobs EXCEPT ![job_id] = doc("Processing")]
           js2 == update_job_status(js1, job_id, "Queued", 40,
                    "All videos found in storage - queueing for processing...",
                    NoText, NoUrl, NoSuggestions)
           msg == Message(job_id, unique, request, NoText)
       IN
       /\ nextJob' = job_id
       /\ apify_runs' = apify_runs
       /\ IF publish_raises(msg, accepted)
          THEN /\ jobs' = update_job_status(js2, job_id, "Failed", NoProgress, NoText,
                            "Failed to publish job to message queue", NoUrl,
                            <<"Failed to queue job for processing", "Please try again">>)
               /\ queue' = queue
               /\ respond(500, 0)
          ELSE /\ jobs' = update_job_status(js2, job_id, "Queued", 45,
                            "Job queued for background processing...",
                            NoText, NoUrl, NoSuggestions)
               /\ queue' = Append(queue, msg)
               /\ respond(201, job_id)
     ELSE
       \* the Apify run id becomes the job id; no document when the run
       \* could not be started
       /\ IF started
          THEN /\ jobs' = [jobs EXCEPT ![job_id] = doc("Downloading")]
               /\ apify_runs' = [apify_runs EXCEPT ![job_id] = "RUNNING"]
               /\ nextJob' = job_id
               /\ respond(201, job_id)
          ELSE /\ UNCHANGED <<jobs, nextJob, apify_runs>>
               /\ respond(500, 0)
       /\ queue' = queue
  /\ UNCHANGED <<bucket, w, deliveries, resumes, index, resumed>>

\* processVideoJob (deployment without acquisition): the assets that are
\* not in storage are left out, and the job fails at once when none is.
processVideoJob_without_acquisition(body, avail, accepted) ==
  LET segments == body.segments
      unique == unique_video_ids(segments)
      available == videos_available(unique, avail)
      missing == videos_missing(unique, avail)
      job_id == nextJob + 1
      respond(code, id) ==
        http' = Response("processVideoJob_without_acquisition", body, code, id)
  IN
  IF request_error(body) # NoText
  THEN /\ respond(400, 0)
       /\ UNCHANGED <<jobs, queue, bucket, w, nextJob, deliveries, resumes, faults, index, apify_runs, resumed>>
  ELSE
  /\ nextJob < MaxJobs
  /\ nextJob' = job_id
  /\ IF available = <<>>
     THEN /\ faults' = faults
          /\ jobs' = [jobs EXCEPT ![job_id] =
                        [NoJob EXCEPT !.status = "Failed", !.videoIds = unique,
                                      !.segments = segments,
                                      !.videosMissing = missing,
                                      !.error = "All required videos are missing from storage"]]
          /\ queue' = queue
          /\ respond(400, job_id)
     ELSE
       LET job_data == [NoJob EXCEPT !.status = "Processing", !.videoIds = available,
                                     !.segments = available_segments(segments, Range(available)),
                                     !.originalSegments = segments,
                                     !.videosAvailable = available,
                                     !.videosMissing = missing]
           js1 == [jobs EXCEPT ![job_id] = job_data]
           js2 == update_job_status(js1, job_id, "Processing", 20,
                    IF missing # <<>>
                    THEN "Processing available videos - some videos missing from storage"
                    ELSE "All videos found in storage - processing segments...",
                    NoText, NoUrl, NoSuggestions)
           msg == Message(job_id, job_data.videoIds, job_data.segments, "datetime")
       IN
       /\ Outcome(accepted)
       /\ IF publish_raises(serialize_job_data_for_pubsub(msg), accepted)
          THEN /\ jobs' = update_job_status(js2, job_id, "Failed", NoProgress, NoText,
                            "Failed to publish job to message queue", NoUrl,
                            <<"Failed to queue job for processing", "Please try again">>)
               /\ queue' = queue
               /\ respond(500, 0)
          ELSE /\ queue' = publish_video_processing_job(queue, msg)
               /\ jobs' = update_job_status(js2, job_id, "Queued", 25,
                            "Job queued for processing", NoText, NoUrl, NoSuggestions)
               /\ respond(201, job_id)
  /\ UNCHANGED <<bucket, w, deliveries, resumes, index, apify_runs, resumed>>

\* The actor run of a job ends: Apify gives it one of the final statuses.
apify_run_ends(job_id, status) ==
  /\ apify_runs[job_id] = "RUNNING"
  /\ status \in RunStatuses \ {"RUNNING"}
  /\ apify_runs' = [apify_runs EXCEPT ![job_id] = status]
  /\ UNCHANGED <<jobs, queue, bucket, w, nextJob, deliveries, resumes, faults, http,
                 index, resumed>>

\* handleVideoDownloadSuccess, the webhook Apify calls when a run succeeded,
\* for the run id of a job that is Downloading.  A run whose end was not a
\* step of its own succeeds with the call.
\* The job data published is the Firestore document itself, whose createdAt
\* is a timestamp.
handleVideoDownloadSuccess(job_run_id, accepted) ==
  LET job_data == jobs[job_run_id]
      js1 == update_job_status(jobs, job_run_id, "Queued", 50,
               "Videos downloaded successfully, queueing for segment processing...",
               NoText, NoUrl, NoSuggestions)
      msg == Message(job_run_id, job_data.videoIds, job_data.segments, "datetime")
      respond(code) ==
        http' = Response("handleVideoDownloadSuccess", NoBody, code, job_run_id)
  IN
  /\ jobs[job_run_id].status = "Downloading"
  /\ apify_runs[job_run_id] \in {"RUNNING", "SUCCEEDED"}
  /\ apify_runs' = [apify_runs EXCEPT ![job_run_id] = "SUCCEEDED"]
  /\ Outcome(accepted)
  /\ IF publish_raises(msg, accepted)
     THEN /\ jobs' = update_job_status(js1, job_run_id, "Failed", NoProgress, NoText,
                       "Failed to queue for processing: Failed to publish job to message queue",
                       NoUrl,
                       <<"Video download succeeded but failed to queue for processing",
                         "This could be due to messaging system issues",
                         "Please try submitting the job again">>)
          /\ queue' = queue
          /\ respond(500)
     ELSE /\ jobs' = update_job_status(js1, job_run_id, "Queued", 55,
                       "Job queued for background processing...",
                       NoText, NoUrl, NoSuggestions)
          /\ queue' = Append(queue, msg)
          /\ respond(200)
  /\ UNCHANGED <<bucket, w, nextJob, deliveries, resumes, index, resumed>>

\* getJobStatus (main.py, the deployment that processes in the request):
\* a poll of a job that is Downloading asks Apify for the status of the run
\* and writes Processing when it SUCCEEDED, Failed when it FAILED, nothing
\* for any other status.  checked: the question to Apify was answered.
getJobStatus(job_id, checked) ==
  LET apify_status == apify_runs[job_id]
      respond(code) == http' = Response("getJobStatus", NoBody, code, job_id)
  IN
  /\ IF jobs[job_id].status = NoStatus
     THEN /\ respond(404)
          /\ UNCHANGED <<jobs, faults>>
     ELSE
       /\ respond(200)
       /\ IF jobs[job_id].status = "Downloading"
          THEN /\ Outcome(checked)
               /\ jobs' = IF checked /\ apify_status = "SUCCEEDED"
                          THEN update_job_status(jobs, job_id, "Processing", 50,
                                 "Download completed, processing segments...",
                                 NoText, NoUrl, NoSuggestions)
                          ELSE IF checked /\ apify_status = "FAILED"
                          THEN update_job_status(jobs, job_id, "Failed", NoProgress, NoText,
                                 "Apify actor run failed", NoUrl, NoSuggestions)
                          ELSE jobs
          ELSE UNCHANGED <<jobs, faults>>
  /\ UNCHANGED <<queue, bucket, w, nextJob, deliveries, resumes, index, apify_runs, resumed>>

\* resumeVideoJob (deployment without acquisition).  It does not look at the
\* job's status.  avail: the ids found in the bucket listing at this moment.
resumeVideoJob(job_id, avail, accepted) ==
  LET job_data == jobs[job_id]
      \* job_data.get("originalSegments") or job_data.get("segments")
      segments == IF job_data.originalSegments # <<>> THEN job_data.originalSegments
                  ELSE job_data.segments
      unique == unique_video_ids(segments)
      available == videos_available(unique, avail)
      missing == videos_missing(unique, avail)
      respond(code) == http' = Response("resumeVideoJob", NoBody, code, job_id)
  IN
  IF job_data.status = NoStatus
  THEN /\ respond(404)
       /\ UNCHANGED <<jobs, queue, bucket, w, nextJob, deliveries, resumes, faults, index, apify_runs, resumed>>
  ELSE
  /\ resumes < MaxResumes
  /\ segments # <<>>
  /\ resumes' = resumes + 1
  /\ resumed' = [resumed EXCEPT ![job_id] = Failure(job_data)]
  /\ IF available = <<>>
     THEN /\ faults' = faults
          /\ jobs' = update_job_status(jobs, job_id, "Failed", NoProgress, NoText,
                       "All required videos are missing from storage", NoUrl, NoSuggestions)
          /\ queue' = queue
          /\ respond(400)
     ELSE
       LET updated_job_data ==
             [job_data EXCEPT !.videoIds = available,
                              !.segments = available_segments(segments, Range(available)),
                              !.status = "Processing",
                              !.videosAvailable = available,
                              !.videosMissing = missing]
           js1 == [jobs EXCEPT ![job_id] = updated_job_data]
           js2 == update_job_status(js1, job_id, "Processing", 20,
                    IF missing # <<>>
                    THEN "Resumed processing available videos - some videos missing from storage"
                    ELSE "Resumed - all videos found in storage",
                    NoText, NoUrl, NoSuggestions)
           msg == Message(job_id, updated_job_data.videoIds, updated_job_data.segments,
                          "datetime")
       IN
       /\ Outcome(accepted)
       /\ IF publish_raises(serialize_job_data_for_pubsub(msg), accepted)
          THEN /\ jobs' = update_job_status(js2, job_id, "Failed", NoProgress, NoText,
                            "Failed to publish job to message queue", NoUrl,
                            <<"Failed to queue resumed job for processing",
                              "Please try again">>)
               /\ queue' = queue
               /\ respond(500)
          ELSE /\ queue' = publish_video_processing_job(queue, msg)
               /\ jobs' = update_job_status(js2, job_id, "Queued", 25,
                            "Job resumed and queued for processing",
                            NoText, NoUrl, NoSuggestions)
               /\ respond(200)
  /\ UNCHANGED <<bucket, w, nextJob, deliveries, index, apify_runs>>

\* ------------------------------------------------- consumer: pure parts
RECURSIVE last_appearance_order(_)
last_appearance_order(segs) ==
  IF segs = <<>> THEN <<>>
  ELSE LET rest == last_appearance_order(Tail(segs))
           v == Head(segs).videoId
       IN IF \E i \in 1..Len(rest) : rest[i] = v THEN rest ELSE <<v>> \o rest

\* keys of segments_by_video: dict insertion order, i.e. the ids of the
\* segments list in order of first appearance
segments_by_video_keys(segments) == unique_video_ids(segments)

\* segments_by_video[video_id]
video_segments(segments, video_id) ==
  SelectSeq(segments, LAMBDA s : s.videoId = video_id)

RECURSIVE SortByStart(_)
SortByStart(segs) ==
  IF segs = <<>> THEN <<>>
  ELSE LET m == CHOOSE n \in 1..Len(segs) :
                  \A k \in 1..Len(segs) :
                    /\ segs[n].start <= segs[k].start
                    /\ segs[n].start = segs[k].start => n <= k
       IN <<segs[m]>> \o SortByStart([k \in 1..(Len(segs) - 1) |->
                                        IF k < m THEN segs[k] ELSE segs[k + 1]])

validate_segments_sorted(segs) ==
  LET keep == SelectSeq(segs, LAMBDA s :
                s.startTimeSeconds >= 0 /\ s.endTimeSeconds > s.startTimeSeconds)
  IN SortByStart([n \in 1..Len(keep) |->
        [start |-> keep[n].startTimeSeconds, end |-> keep[n].endTimeSeconds,
         videoId |-> keep[n].videoId,
         duration |-> keep[n].endTimeSeconds - keep[n].startTimeSeconds]])

validate_segments_keeps_negative_start(segs) ==
  LET keep == SelectSeq(segs, LAMBDA s : s.endTimeSeconds > s.startTimeSeconds)
  IN [n \in 1..Len(keep) |->
        [start |-> keep[n].startTimeSeconds, end |-> keep[n].endTimeSeconds,
         videoId |-> keep[n].videoId,
         duration |-> keep[n].endTimeSeconds - keep[n].startTimeSeconds]]

\* process_video_segments, validation loop: keeps start >= 0 and end > start
validate_segments(segs) ==
  LET keep == SelectSeq(segs, LAMBDA s :
                s.startTimeSeconds >= 0 /\ s.endTimeSeconds > s.startTimeSeconds)
  IN [n \in 1..Len(keep) |->
        [start |-> keep[n].startTimeSeconds, end |-> keep[n].endTimeSeconds,
         videoId |-> keep[n].videoId,
         duration |-> keep[n].endTimeSeconds - keep[n].startTimeSeconds]]

\* sum(seg["duration"] for seg in valid_segments): the duration the output
\* of the asset is compared with
RECURSIVE total_segment_duration(_)
total_segment_duration(valid) ==
  IF valid = <<>> THEN 0
  ELSE Head(valid).duration + total_segment_duration(Tail(valid))

\* the arguments of ffmpeg.input for one sub-clip: ss=start_time, t=duration,
\* where duration was taken before end_time is adjusted to the asset's end
segment_cut(seg) == [ss |-> seg.start, t |-> seg.end - seg.start]

video_progress_undivided(processed_videos, total_videos_to_process) ==
  55 + 25 * processed_videos

\* int(55 + (processed_videos / total_videos_to_process) * 25)
video_progress(processed_videos, total_videos_to_process) ==
  55 + (25 * processed_videos) \div total_videos_to_process

\* int(60 + (i + 1) / len(valid_segments) * 15), n = i + 1
segment_progress(n, len_valid_segments) ==
  60 + (15 * n) \div len_valid_segments

blob_name_per_delivery(job_id) ==
  <<"edited-clips", job_id, deliveries, "final_video.mp4">>

\* blob_name of upload_to_gcs
blob_name(job_id) == <<"edited-clips", job_id, "final_video.mp4">>

\* the suggestions process_video_segments attaches to an error text
\* (first keyword of the chain that occurs in the lower-cased text)
pvs_suggestions(error_msg) ==
  CASE error_msg = "ffmpeg-python cannot process this video file" ->
         <<"ffmpeg-python processing failed - video encoding issue",
           "Try selecting shorter segments or check video format compatibility">>
    [] error_msg = "Video encoding failed: ffmpeg-python error" ->
         <<"ffmpeg-python processing failed - video encoding issue",
           "Try selecting shorter segments or check video format compatibility">>
    [] OTHER -> <<"Video processing encountered an unexpected error">>

\* the codecs of the first concatenation run: one sub-clip is written with
\* format='mp4' alone, several with vcodec='copy', acodec='copy'
concat_codec(segment_files) ==
  IF Len(segment_files) = 1 THEN "reencode" ELSE "copy"

\* the asset of the current iteration of the per-video loop
video_id_of(wr) == wr.order[wr.processed_videos]

\* bookkeeping of one update_job_status call of the execution
Wrote(wr, status, video_url) ==
  [wr EXCEPT !.wrote = @ \cup {status}, !.last = status,
             !.setUrl = @ \/ video_url # NoUrl]

\* ------------------------------------------------ consumer: the handler
ConsumerWrite_raises(status, progress, message, error, video_url, suggestions, wr) ==
  IF w.firestore_client = "up"
  THEN /\ jobs' = update_job_status(jobs, w.job_id, status, progress, message, error,
                                    video_url, suggestions)
       /\ w' = Wrote(wr, status, video_url)
  ELSE /\ jobs' = jobs
       /\ w' = [w EXCEPT !.exc = "Failed to update job status", !.lost = TRUE,
                         !.pc = IF w.pc = "pvj_except" THEN "done" ELSE "pvj_except",
                         !.result = IF w.pc = "pvj_except" THEN "raised" ELSE @]

\* One update_job_status call of the consumer, after which its state is wr.
\* When the client is down the update raises inside update_job_status, which
\* logs the exception and returns.
ConsumerWrite(status, progress, message, error, video_url, suggestions, wr) ==
  /\ jobs' = IF w.firestore_client = "up"
             THEN update_job_status(jobs, w.job_id, status, progress, message, error,
                                    video_url, suggestions)
             ELSE jobs
  /\ w' = [Wrote(wr, status, video_url) EXCEPT !.lost = @ \/ w.firestore_client = "down"]

\* process_video_job, from the delivery of a message to the first write
\* (Processing, 50).  The message data was produced by json.dumps and the
\* jobId attribute is always set by the publishers above.
Deliver(n) ==
  /\ w.pc = "idle"
  /\ deliveries < MaxDeliveries
  /\ n \in 1..Len(queue)
  /\ deliveries' = deliveries + 1
  /\ queue' = [k \in 1..(Len(queue) - 1) |-> IF k < n THEN queue[k] ELSE queue[k + 1]]
  /\ LET m == queue[n]
         wr == [Idle EXCEPT !.pc = "psj_start", !.job_id = m.jobId,
                            !.videoIds = m.videoIds, !.segments = m.segments,
                            !.createdAt = m.createdAt,
                            !.firestore_client = w.firestore_client]
     IN /\ jobs' = IF w.firestore_client = "up"
                   THEN update_job_status(jobs, m.jobId, "Processing", 50,
                          "Starting video segment processing via Pub/Sub...",
                          NoText, NoUrl, NoSuggestions)
                   ELSE jobs
        /\ w' = [Wrote(wr, "Processing", NoUrl) EXCEPT
                   !.lost = w.firestore_client = "down"]
  /\ UNCHANGED <<bucket, nextJob, http, index, apify_runs, resumed, resumes, faults>>

\* process_segments_for_job up to the grouping of the segments
psj_start ==
  /\ w.pc = "psj_start"
  /\ IF w.videoIds = <<>> \/ w.segments = <<>>
     THEN /\ w' = [w EXCEPT !.exc = "Job missing video IDs or segments data",
                            !.pc = "pvj_except"]
          /\ jobs' = jobs
     ELSE ConsumerWrite("Processing", 55, "Analyzing segments across videos...",
                        NoText, NoUrl, NoSuggestions,
                        [w EXCEPT !.temp_dir = TRUE,
                                  !.order = segments_by_video_keys(w.segments),
                                  !.pc = "video_loop"])
  /\ UNCHANGED <<queue, bucket, nextJob, http, index, apify_runs, resumed, deliveries, resumes, faults>>

\* head of one iteration of the per-video loop: the progress write and the
\* start of the video's timer
video_loop ==
  /\ w.pc = "video_loop"
  /\ w.processed_videos < Len(w.order)
  /\ LET k == w.processed_videos + 1
         pp == video_progress(k, Len(w.order))
     IN ConsumerWrite("Processing", pp, "Processing video k/n: " \o w.order[k], NoText, NoUrl,
                      NoSuggestions,
                      [w EXCEPT !.processed_videos = k, !.progress_percent = pp,
                                !.timer = "running", !.video_timeout_flag = FALSE,
                                !.valid_segments = <<>>, !.i = 0,
                                !.total_segment_duration = 0,
                                !.segment_files = <<>>, !.exc = NoText,
                                !.runs = <<>>, !.pc = "find"])
  /\ UNCHANGED <<queue, bucket, nextJob, http, index, apify_runs, resumed, deliveries, resumes, faults>>

\* the timer thread: video_timeout_handler sets the flag and does nothing else
video_timeout_handler ==
  /\ w.timer = "running"
  /\ ~w.video_timeout_flag
  /\ Outcome(FALSE)
  /\ w' = [w EXCEPT !.video_timeout_flag = TRUE,
                    !.expired = IF w.pc \in {"pvs_segment", "pvs_concat"}
                                THEN @ \cup {video_id_of(w)} ELSE @]
  /\ UNCHANGED <<jobs, queue, bucket, nextJob, http, index, apify_runs, resumed, deliveries, resumes>>

\* first flag check, then find_video_file_fuse (each video is a key of
\* segments_by_video once, so downloaded_videos never has it yet).
\* found: a file matches one of the glob patterns under the mount path.
find_video ==
  /\ w.pc = "find"
  /\ IF w.video_timeout_flag
     THEN /\ w' = [w EXCEPT !.timer = "cancelled", !.pc = "video_timeout"]
          /\ faults' = faults
     ELSE \E found \in BOOLEAN :
            /\ Outcome(found)
            /\ w' = IF found
                    THEN [w EXCEPT !.pc = "check2"]
                    ELSE [w EXCEPT !.timer = "cancelled",
                                   !.exc = "Video file not found in mounted bucket",
                                   !.pc = "video_error"]
  /\ UNCHANGED <<jobs, queue, bucket, nextJob, http, index, apify_runs, resumed, deliveries, resumes>>

pvs_begin_accepts_empty ==
  /\ w.pc = "check2"
  /\ LET valid == validate_segments(video_segments(w.segments, video_id_of(w)))
     IN
     IF w.video_timeout_flag
     THEN /\ w' = [w EXCEPT !.timer = "cancelled", !.pc = "video_timeout"]
          /\ UNCHANGED <<jobs, faults>>
     ELSE \E probed \in BOOLEAN :
            /\ Outcome(probed)
            /\ IF probed
               THEN ConsumerWrite("Processing", 60, "Processing video segments...",
                                  NoText, NoUrl, NoSuggestions,
                                  [w EXCEPT !.valid_segments = valid,
                                            !.pc = "pvs_segment"])
               ELSE /\ w' = [w EXCEPT !.valid_segments = valid,
                                      !.exc = "ffmpeg-python cannot process this video file",
                                      !.pc = "pvs_except"]
                    /\ jobs' = jobs
  /\ UNCHANGED <<queue, bucket, nextJob, http, index, apify_runs, resumed,
                 deliveries, resumes>>

\* second flag check, then process_video_segments up to its first write:
\* validation of the segments and the probe of the source file
pvs_begin ==
  /\ w.pc = "check2"
  /\ LET valid == validate_segments(video_segments(w.segments, video_id_of(w)))
     IN
     IF w.video_timeout_flag
     THEN /\ w' = [w EXCEPT !.timer = "cancelled", !.pc = "video_timeout"]
          /\ UNCHANGED <<jobs, faults>>
     ELSE IF valid = <<>>
     THEN /\ w' = [w EXCEPT !.exc = "No valid segments to process", !.pc = "pvs_except"]
          /\ UNCHANGED <<jobs, faults>>
     ELSE \E probed \in BOOLEAN :
            /\ Outcome(probed)
            /\ IF probed
               THEN ConsumerWrite("Processing", 60, "Processing video segments...",
                                  NoText, NoUrl, NoSuggestions,
                                  [w EXCEPT !.valid_segments = valid,
                                            !.total_segment_duration =
                                               total_segment_duration(valid),
                                            !.pc = "pvs_segment"])
               ELSE /\ w' = [w EXCEPT !.valid_segments = valid,
                                      !.total_segment_duration =
                                         total_segment_duration(valid),
                                      !.exc = "ffmpeg-python cannot process this video file",
                                      !.pc = "pvs_except"]
                    /\ jobs' = jobs
  /\ UNCHANGED <<queue, bucket, nextJob, http, index, apify_runs, resumed, deliveries, resumes>>

\* one iteration of the segment loop.  ran: ffmpeg produced the sub-clip.
\* The sub-clip is written by one run of ffmpeg.output(..., format='mp4'),
\* which names no codec, so ffmpeg encodes; when the run fails the loop
\* goes on to the next segment.
pvs_segment ==
  /\ w.pc = "pvs_segment"
  /\ w.i < Len(w.valid_segments)
  /\ LET n == w.i + 1
         seg == w.valid_segments[n]
     IN
     IF seg.start >= VideoDuration
     THEN /\ w' = [w EXCEPT !.i = n]
          /\ UNCHANGED <<jobs, faults>>
     ELSE \E ran \in BOOLEAN :
            /\ Outcome(ran)
            /\ IF ran
               THEN ConsumerWrite("Processing",
                                  segment_progress(n, Len(w.valid_segments)),
                                  "Processed segment i/n", NoText, NoUrl, NoSuggestions,
                                  [w EXCEPT !.i = n, !.runs = <<"reencode">>,
                                            !.segment_files = Append(@, segment_cut(seg))])
               ELSE /\ w' = [w EXCEPT !.i = n, !.runs = <<"reencode">>]
                    /\ jobs' = jobs
  /\ UNCHANGED <<queue, bucket, nextJob, http, index, apify_runs, resumed, deliveries, resumes>>

\* after the segment loop
pvs_segments_done ==
  /\ w.pc = "pvs_segment"
  /\ w.i = Len(w.valid_segments)
  /\ IF w.segment_files = <<>>
     THEN /\ w' = [w EXCEPT !.exc = "No valid video segments could be created",
                            !.pc = "pvs_except"]
          /\ jobs' = jobs
     ELSE ConsumerWrite("Processing", 75,
                        "Combining segments and encoding final video...",
                        NoText, NoUrl, NoSuggestions, [w EXCEPT !.pc = "pvs_concat"])
  /\ UNCHANGED <<queue, bucket, nextJob, http, index, apify_runs, resumed, deliveries, resumes, faults>>

pvs_concat_keeps_timer ==
  /\ w.pc = "pvs_concat"
  /\ \E copied \in BOOLEAN, reencoded \in BOOLEAN :
       /\ Outcome(copied)
       /\ copied => reencoded
       /\ w' = IF copied \/ reencoded
               THEN [w EXCEPT !.all_processed_segments =
                                 Append(@, [videoId |-> video_id_of(w),
                                            parts |-> w.segment_files]),
                              !.runs = <<>>, !.pc = "video_loop"]
               ELSE [w EXCEPT !.exc = "Video encoding failed: ffmpeg-python error",
                              !.runs = <<concat_codec(w.segment_files), "reencode">>,
                              !.pc = "pvs_except"]
  /\ UNCHANGED <<jobs, queue, bucket, nextJob, http, index, apify_runs, resumed,
                 deliveries, resumes>>

\* concatenation of the sub-clips in the order of segment_files, and the
\* return to the per-video loop, which cancels the timer.
\* copied: the first run produced the output file; reencoded: the run of
\* the fallback, made when the first raised ffmpeg.Error, did.
pvs_concat ==
  /\ w.pc = "pvs_concat"
  /\ \E copied \in BOOLEAN, reencoded \in BOOLEAN :
       /\ Outcome(copied)
       /\ copied => reencoded
       /\ w' = IF copied \/ reencoded
               THEN [w EXCEPT !.all_processed_segments =
                                 Append(@, [videoId |-> video_id_of(w),
                                            parts |-> w.segment_files]),
                              !.runs = <<>>,
                              !.timer = "cancelled", !.pc = "video_loop"]
               ELSE [w EXCEPT !.exc = "Video encoding failed: ffmpeg-python error",
                              !.runs = <<concat_codec(w.segment_files), "reencode">>,
                              !.pc = "pvs_except"]
  /\ UNCHANGED <<jobs, queue, bucket, nextJob, http, index, apify_runs, resumed, deliveries, resumes>>

\* the except clause of process_video_segments: it writes Failed and raises
pvs_except ==
  /\ w.pc = "pvs_except"
  /\ ConsumerWrite("Failed", NoProgress, NoText, w.exc, NoUrl, pvs_suggestions(w.exc),
                   [w EXCEPT !.timer = "cancelled", !.pc = "video_error"])
  /\ UNCHANGED <<queue, bucket, nextJob, http, index, apify_runs, resumed, deliveries, resumes, faults>>

video_error_unrecorded ==
  /\ w.pc = "video_error"
  /\ ConsumerWrite("Processing", w.progress_percent,
                   "Warning: Failed to process video " \o video_id_of(w)
                     \o ", continuing with remaining videos...",
                   NoText, NoUrl, NoSuggestions,
                   [w EXCEPT !.exc = NoText, !.runs = <<>>, !.pc = "video_loop"])
  /\ UNCHANGED <<queue, bucket, nextJob, http, index, apify_runs, resumed,
                 deliveries, resumes, faults>>

\* except Exception of the per-video loop
video_error ==
  /\ w.pc = "video_error"
  /\ ConsumerWrite("Processing", w.progress_percent,
                   "Warning: Failed to process video " \o video_id_of(w)
                     \o ", continuing with remaining videos...",
                   NoText, NoUrl, NoSuggestions,
                   [w EXCEPT !.failed_videos =
                                Append(@, [videoId |-> video_id_of(w), reason |-> w.exc]),
                             !.exc = NoText, !.runs = <<>>, !.pc = "video_loop"])
  /\ UNCHANGED <<queue, bucket, nextJob, http, index, apify_runs, resumed, deliveries, resumes, faults>>

\* except TimeoutError of the per-video loop
video_timeout ==
  /\ w.pc = "video_timeout"
  /\ ConsumerWrite("Processing", w.progress_percent,
                   "Warning: Video " \o video_id_of(w)
                     \o " timed out, continuing with remaining videos...",
                   NoText, NoUrl, NoSuggestions,
                   [w EXCEPT !.failed_videos =
                                Append(@, [videoId |-> video_id_of(w), reason |-> "timeout"]),
                             !.pc = "video_loop"])
  /\ UNCHANGED <<queue, bucket, nextJob, http, index, apify_runs, resumed, deliveries, resumes, faults>>

after_loop_unchecked ==
  /\ w.pc = "video_loop"
  /\ w.processed_videos = Len(w.order)
  /\ ConsumerWrite("Processing", 80,
                   IF w.failed_videos # <<>>
                   THEN "Processed some videos successfully. Combining results..."
                   ELSE "Successfully processed all videos. Combining results...",
                   NoText, NoUrl, NoSuggestions,
                   IF Len(w.all_processed_segments) > 1
                   THEN [w EXCEPT !.pc = "combine"]
                   ELSE [w EXCEPT !.final_video = w.all_processed_segments,
                                  !.pc = "upload"])
  /\ UNCHANGED <<queue, bucket, nextJob, http, index, apify_runs, resumed, deliveries, resumes, faults>>

\* after the per-video loop: nothing succeeded, or the write of 80
after_loop ==
  /\ w.pc = "video_loop"
  /\ w.processed_videos = Len(w.order)
  /\ IF w.all_processed_segments = <<>>
     THEN /\ w' = [w EXCEPT !.exc = "No video segments were successfully processed",
                            !.temp_dir = FALSE, !.pc = "pvj_except"]
          /\ jobs' = jobs
     ELSE ConsumerWrite("Processing", 80,
                        IF w.failed_videos # <<>>
                        THEN "Processed some videos successfully. Combining results..."
                        ELSE "Successfully processed all videos. Combining results...",
                        NoText, NoUrl, NoSuggestions,
                        IF Len(w.all_processed_segments) > 1
                        THEN [w EXCEPT !.pc = "combine"]
                        ELSE [w EXCEPT !.final_video = w.all_processed_segments,
                                       !.pc = "upload"])
  /\ UNCHANGED <<queue, bucket, nextJob, http, index, apify_runs, resumed, deliveries, resumes, faults>>

\* combine_multiple_videos: its write, then the concat of the clips in the
\* order of video_paths.  combined: the copy or the re-encode run succeeded.
combine_multiple_videos ==
  /\ w.pc = "combine"
  /\ \E combined \in BOOLEAN :
       /\ Outcome(combined)
       /\ ConsumerWrite("Processing", 80, "Combining multiple video segments...",
                        NoText, NoUrl, NoSuggestions,
                        IF combined
                        THEN [w EXCEPT !.final_video = w.all_processed_segments,
                                       !.pc = "upload"]
                        ELSE [w EXCEPT !.exc = "ffmpeg-python error",
                                       !.temp_dir = FALSE, !.pc = "pvj_except"])
  /\ UNCHANGED <<queue, bucket, nextJob, http, index, apify_runs, resumed, deliveries, resumes>>

\* upload_to_gcs: its first write
upload_to_gcs_start ==
  /\ w.pc = "upload"
  /\ ConsumerWrite("Uploading", 85, "Uploading final video to cloud storage...",
                   NoText, NoUrl, NoSuggestions, [w EXCEPT !.pc = "upload_run"])
  /\ UNCHANGED <<queue, bucket, nextJob, http, index, apify_runs, resumed, deliveries, resumes, faults>>

\* upload_to_gcs: the upload, the URL and the write of Complete, or the
\* except clause, which writes Failed and raises.
\* uploaded: upload_from_filename succeeded; signed: generate_signed_url did.
upload_to_gcs_run ==
  /\ w.pc = "upload_run"
  /\ \E uploaded \in BOOLEAN, signed \in BOOLEAN :
       /\ Outcome(uploaded /\ signed)
       /\ ~uploaded => signed
       /\ IF uploaded
          THEN LET key == blob_name(w.job_id)
                   public_url == <<key, IF signed THEN "signed" ELSE "basic">>
                   old == {o \in bucket : o.key = key}
               IN /\ bucket' = (bucket \ old) \cup
                                 {[key |-> key, job |-> w.job_id,
                                   generation |->
                                     IF old = {} THEN 1
                                     ELSE (CHOOSE o \in old : TRUE).generation + 1]}
                  /\ ConsumerWrite("Complete", 100, "Video ready for download!",
                                   NoText, public_url, NoSuggestions,
                                   [w EXCEPT !.public_url = public_url,
                                             !.pc = "psj_complete"])
          ELSE /\ bucket' = bucket
               /\ ConsumerWrite("Failed", NoProgress, NoText, "Failed to upload video",
                                NoUrl,
                                <<"Upload to cloud storage failed",
                                  "Please try generating the video again">>,
                                [w EXCEPT !.exc = "Failed to upload video",
                                          !.temp_dir = FALSE, !.pc = "pvj_except"])
  /\ UNCHANGED <<queue, nextJob, http, index, apify_runs, resumed, deliveries, resumes>>

psj_complete_keeps_temp_dir ==
  /\ w.pc = "psj_complete"
  /\ ConsumerWrite("Complete", 100,
                   IF w.failed_videos # <<>>
                   THEN "Video processing complete! Note: some videos failed but"
                          \o " others were processed successfully."
                   ELSE "Video processing complete!",
                   NoText, w.public_url, NoSuggestions,
                   [w EXCEPT !.pc = "pvj_complete"])
  /\ UNCHANGED <<queue, bucket, nextJob, http, index, apify_runs, resumed,
                 deliveries, resumes, faults>>

\* process_segments_for_job: its final write and the removal of temp_dir
psj_complete ==
  /\ w.pc = "psj_complete"
  /\ ConsumerWrite("Complete", 100,
                   IF w.failed_videos # <<>>
                   THEN "Video processing complete! Note: some videos failed but"
                          \o " others were processed successfully."
                   ELSE "Video processing complete!",
                   NoText, w.public_url, NoSuggestions,
                   [w EXCEPT !.temp_dir = FALSE, !.pc = "pvj_complete"])
  /\ UNCHANGED <<queue, bucket, nextJob, http, index, apify_runs, resumed, deliveries, resumes, faults>>

\* process_video_job: its final write and the return of the success dict
pvj_complete ==
  /\ w.pc = "pvj_complete"
  /\ ConsumerWrite("Complete", 100, "Video processing completed successfully",
                   NoText, w.public_url, NoSuggestions,
                   [w EXCEPT !.result = "success", !.pc = "done"])
  /\ UNCHANGED <<queue, bucket, nextJob, http, index, apify_runs, resumed, deliveries, resumes, faults>>

pvj_except_without_suggestions ==
  /\ w.pc = "pvj_except"
  /\ ConsumerWrite("Failed", NoProgress, NoText, w.exc, NoUrl, NoSuggestions,
                   [w EXCEPT !.result = "raised", !.pc = "done"])
  /\ UNCHANGED <<queue, bucket, nextJob, http, index, apify_runs, resumed,
                 deliveries, resumes, faults>>

\* process_video_job: except Exception.  The return statement after the
\* try reads e, which Python unbinds at the end of the except clause, so
\* the handler ends by raising.
pvj_except ==
  /\ w.pc = "pvj_except"
  /\ ConsumerWrite("Failed", NoProgress, NoText, w.exc, NoUrl,
                   <<"Video processing failed in Pub/Sub handler",
                     "Check logs for detailed error information",
                     "Try submitting the job again">>,
                   [w EXCEPT !.result = "raised", !.pc = "done"])
  /\ UNCHANGED <<queue, bucket, nextJob, http, index, apify_runs, resumed, deliveries, resumes, faults>>

\* The runtime after the handler ended: the message is acknowledged, or it
\* stays on the topic to be delivered again (at-least-once delivery).
Ack ==
  /\ w.pc = "done"
  /\ \E redeliver \in BOOLEAN :
       /\ redeliver => deliveries < MaxDeliveries
       /\ queue' = IF redeliver
                   THEN Append(queue, Message(w.job_id, w.videoIds, w.segments, w.createdAt))
                   ELSE queue
  /\ w' = Idle
  /\ UNCHANGED <<jobs, bucket, nextJob, http, index, apify_runs, resumed, deliveries, resumes, faults>>

\* ---------------------------------------------------------- specification
Next ==
  \/ /\ nextJob < MaxJobs
     /\ \E request \in Requests, avail \in SUBSET Videos, accepted \in BOOLEAN,
           started \in BOOLEAN :
          processVideoJob(Body("list", request), avail, accepted, started)
  \/ /\ nextJob < MaxJobs
     /\ \E request \in RequestsWithoutAcquisition, avail \in SUBSET Videos,
           accepted \in BOOLEAN :
          processVideoJob_without_acquisition(Body("list", request), avail, accepted)
  \* malformed requests are served before the first delivery, and, like
  \* resume requests, while no execution runs or is pending
  \/ /\ w.pc = "idle" /\ queue = <<>> /\ deliveries = 0
     /\ \E body \in BadRequests :
          \/ processVideoJob(body, {}, TRUE, TRUE)
          \/ processVideoJob_without_acquisition(body, {}, TRUE)
  \/ \E j \in JobIds, accepted \in BOOLEAN : handleVideoDownloadSuccess(j, accepted)
  \/ /\ w.pc = "idle" /\ queue = <<>>
     /\ \E j \in JobIds, avail \in SUBSET Videos, accepted \in BOOLEAN :
          resumeVideoJob(j, avail, accepted)
  \/ \E n \in 1..Len(queue) : Deliver(n)
  \/ psj_start
  \/ video_loop
  \/ video_timeout_handler
  \/ find_video
  \/ pvs_begin
  \/ pvs_segment
  \/ pvs_segments_done
  \/ pvs_concat
  \/ pvs_except
  \/ video_error
  \/ video_timeout
  \/ after_loop
  \/ combine_multiple_videos
  \/ upload_to_gcs_start
  \/ upload_to_gcs_run
  \/ psj_complete
  \/ pvj_complete
  \/ pvj_except
  \/ Ack

Spec == Init /\ [][Next]_vars

\* ------------------------------------- the Availability Index on its own
\* A call of check_existing_videos_in_gcs for a list of ids and a listing.
InitIndex ==
  /\ jobs = [j \in JobIds |-> NoJob]
  /\ queue = <<>>
  /\ bucket = {}
  /\ w = Idle
  /\ nextJob = 0
  /\ deliveries = 0
  /\ resumes = 0
  /\ faults = 0
  /\ http = NoResponse
  /\ video_ids \in VideoIdLists
  /\ blobs_list \in Listings
  /\ existing_videos = NoCall
  /\ apify_runs = [j \in JobIds |-> NoRun]
  /\ resumed = [j \in JobIds |-> NoResume]

\* the call in the deployment without acquisition
check_existing_call ==
  /\ existing_videos = NoCall
  /\ \E listed \in BOOLEAN :
       existing_videos' =
         [by |-> "check_existing_videos_in_gcs", listed |-> listed,
          result |-> check_existing_videos_in_gcs(video_ids, blobs_list, listed)]
  /\ UNCHANGED <<jobs, queue, bucket, w, nextJob, deliveries, resumes, faults, http,
                 video_ids, blobs_list, apify_runs, resumed>>

\* the call in the deployment with acquisition
check_existing_call_with_acquisition ==
  /\ existing_videos = NoCall
  /\ \E listed \in BOOLEAN :
       existing_videos' =
         [by |-> "check_existing_videos_in_gcs_with_acquisition", listed |-> listed,
          result |-> check_existing_videos_in_gcs_with_acquisition(video_ids, blobs_list,
                                                                   listed)]
  /\ UNCHANGED <<jobs, queue, bucket, w, nextJob, deliveries, resumes, faults, http,
                 video_ids, blobs_list, apify_runs, resumed>>

NextIndex == check_existing_call \/ check_existing_call_with_acquisition

SpecIndex == InitIndex /\ [][NextIndex]_vars

\* ------------------------------ process_video_segments for one asset alone
\* The segments of asset "A" a request can carry: they start before, in and
\* at the end of the asset and end before, at and after their start.
ExtractSegmentSet ==
  {Segment("A", start, end) : start \in -1..VideoDuration, end \in 0..(VideoDuration + 1)}

ExtractRequests == UNION {[1..n -> ExtractSegmentSet] : n \in 1..MaxSegs}

\* The consumer at the call of process_video_segments for the only asset of
\* a job that processVideoJob queued: the writes of 40, 45, 50, 55 and of
\* the loop head are done, the file is found, the timer runs.
InitExtract ==
  \E request \in ExtractRequests :
    /\ jobs = [j \in JobIds |->
                 IF j = 1
                 THEN [NoJob EXCEPT !.status = "Processing",
                                    !.progress = video_progress(1, 1),
                                    !.progressMessage = "Processing video k/n: A",
                                    !.videoIds = unique_video_ids(request),
                                    !.segments = request,
                                    !.videosAlreadyAvailable = unique_video_ids(request)]
                 ELSE NoJob]
    /\ queue = <<>>
    /\ bucket = {}
    /\ w = [Idle EXCEPT !.pc = "check2", !.job_id = 1,
                        !.videoIds = unique_video_ids(request),
                        !.segments = request,
                        !.temp_dir = TRUE,
                        !.order = segments_by_video_keys(request),
                        !.processed_videos = 1,
                        !.progress_percent = video_progress(1, 1),
                        !.timer = "running",
                        !.wrote = {"Processing"}, !.last = "Processing"]
    /\ nextJob = 1
    /\ deliveries = 1
    /\ resumes = 0
    /\ faults = 0
    /\ http = Response("processVideoJob", Body("list", request), 201, 1)
    /\ video_ids = <<>>
    /\ blobs_list = <<>>
    /\ existing_videos = NoCall
    /\ apify_runs = [j \in JobIds |-> NoRun]
    /\ resumed = [j \in JobIds |-> NoResume]

NextExtract ==
  \/ pvs_begin
  \/ pvs_segment
  \/ pvs_segments_done
  \/ pvs_concat
  \/ pvs_except

SpecExtract == InitExtract /\ [][NextExtract]_vars

\* -------------------------------------------- the acquisition of a job
\* The dispatcher with acquisition, the actor run, its webhook and the
\* polls of getJobStatus.  The handlers run whenever they have something
\* to do: clients keep polling, and Apify calls the webhook of a run that
\* succeeded.  Nothing makes a run end.
\* Apify calls the webhook of a run that ended SUCCEEDED
webhook(job_run_id, accepted) ==
  /\ apify_runs[job_run_id] = "SUCCEEDED"
  /\ handleVideoDownloadSuccess(job_run_id, accepted)

NextAcquisition ==
  \/ /\ nextJob < MaxJobs
     /\ \E request \in Requests, avail \in SUBSET Videos, accepted \in BOOLEAN,
           started \in BOOLEAN :
          processVideoJob(Body("list", request), avail, accepted, started)
  \/ \E j \in JobIds, status \in RunStatuses : apify_run_ends(j, status)
  \/ \E j \in JobIds, accepted \in BOOLEAN : webhook(j, accepted)
  \/ \E j \in JobIds, checked \in BOOLEAN : getJobStatus(j, checked)

SpecAcquisition ==
  /\ Init
  /\ [][NextAcquisition]_vars
  /\ WF_vars(\E j \in JobIds, accepted \in BOOLEAN : webhook(j, accepted))
  /\ WF_vars(\E j \in JobIds, checked \in BOOLEAN : getJobStatus(j, checked))

\* ------------------------------------- the pipeline with a failing Job Store
\* what the execution in w did so far
ResultOf(wr) ==
  Result(SubSeq(wr.order, 1, wr.processed_videos), wr.all_processed_segments,
         wr.failed_videos, wr.final_video, wr.public_url, wr.result)

\* The Firestore client of the instance starts to fail: every update raises.
firestore_fails ==
  /\ w.firestore_client = "up"
  /\ w' = [w EXCEPT !.firestore_client = "down"]
  /\ UNCHANGED <<jobs, queue, bucket, nextJob, deliveries, resumes, faults, http,
                 index, apify_runs, resumed>>

\* and it works again
firestore_recovers ==
  /\ w.firestore_client = "down"
  /\ w' = [w EXCEPT !.firestore_client = "up"]
  /\ UNCHANGED <<jobs, queue, bucket, nextJob, deliveries, resumes, faults, http,
                 index, apify_runs, resumed>>

\* Pub/Sub delivers the message of the execution that just ended once more
\* to the same instance: process_video_job up to its first write.
redelivered ==
  /\ w.pc = "done"
  /\ deliveries < MaxDeliveries
  /\ deliveries' = deliveries + 1
  /\ LET wr == [Idle EXCEPT !.pc = "psj_start", !.job_id = w.job_id,
                            !.videoIds = w.videoIds, !.segments = w.segments,
                            !.createdAt = w.createdAt,
                            !.firestore_client = w.firestore_client,
                            !.previous = ResultOf(w)]
     IN /\ jobs' = IF w.firestore_client = "up"
                   THEN update_job_status(jobs, w.job_id, "Processing", 50,
                          "Starting video segment processing via Pub/Sub...",
                          NoText, NoUrl, NoSuggestions)
                   ELSE jobs
        /\ w' = [Wrote(wr, "Processing", NoUrl) EXCEPT
                   !.lost = w.firestore_client = "down"]
  /\ UNCHANGED <<queue, bucket, nextJob, resumes, faults, http, index, apify_runs,
                 resumed>>

\* The source files are there and ffmpeg, the upload and the topic work:
\* the Job Store is all that fails.
InitStore ==
  /\ jobs = [j \in JobIds |-> NoJob]
  /\ queue = <<>>
  /\ bucket = {}
  /\ w = Idle
  /\ nextJob = 0
  /\ deliveries = 0
  /\ resumes = 0
  /\ faults = MaxFaults
  /\ http = NoResponse
  /\ video_ids = <<>>
  /\ blobs_list = <<>>
  /\ existing_videos = NoCall
  /\ apify_runs = [j \in JobIds |-> NoRun]
  /\ resumed = [j \in JobIds |-> NoResume]

NextStore ==
  \/ /\ nextJob < MaxJobs
     /\ \E request \in RequestsWithoutAcquisition :
          processVideoJob_without_acquisition(Body("list", request), Videos, TRUE)
  \/ \E n \in 1..Len(queue) : Deliver(n)
  \/ firestore_fails
  \/ firestore_recovers
  \/ psj_start
  \/ video_loop
  \/ find_video
  \/ pvs_begin
  \/ pvs_segment
  \/ pvs_segments_done
  \/ pvs_concat
  \/ pvs_except
  \/ video_error
  \/ after_loop
  \/ combine_multiple_videos
  \/ upload_to_gcs_start
  \/ upload_to_gcs_run
  \/ psj_complete
  \/ pvj_complete
  \/ pvj_except
  \/ redelivered

SpecStore == InitStore /\ [][NextStore]_vars

\* ------------------------------ the Availability Index and the mounted bucket
\* The dispatcher's call of check_existing_videos_in_gcs, then the lookup
\* of the per-video loop for an asset the dispatcher found, on a mount
\* that mirrors the listing.
find_video_mounted(video_id) ==
  /\ existing_videos.by = "check_existing_videos_in_gcs"
  /\ video_id \in Range(video_ids)
  /\ existing_videos.result[video_id] # NoBlob
  /\ w.pc = "idle"
  /\ LET wr == [w EXCEPT !.order = <<video_id>>, !.processed_videos = 1,
                         !.timer = "running", !.pc = "find"]
     IN w' = IF find_video_file_fuse(video_id, blobs_list) # {}
             THEN [wr EXCEPT !.pc = "check2"]
             ELSE [wr EXCEPT !.timer = "cancelled",
                             !.exc = "Video file not found in mounted bucket",
                             !.pc = "video_error"]
  /\ UNCHANGED <<jobs, queue, bucket, nextJob, deliveries, resumes, faults, http,
                 index, apify_runs, resumed>>

NextMounted ==
  \/ check_existing_call
  \/ \E v \in Videos : find_video_mounted(v)

SpecMounted == InitIndex /\ [][NextMounted]_vars

\* ------------------------------- the dispatcher and the consumer, interleaved
\* publish_video_processing_job returns once the topic has the message, so
\* the consumer can receive it before the dispatcher's handler goes on.
\* Here each handler is two steps, up to the publish and from it on; a
\* request between the two has a response without a code yet.
InFlight(handler) == http.handler = handler /\ http.code = 0

\* processVideoJob up to the return of publish_video_processing_job.  A
\* request that is refused, or whose publish fails, ends in this step.
processVideoJob_publish(body, avail, accepted) ==
  LET segments == body.segments
      unique == unique_video_ids(segments)
      available == videos_available(unique, avail)
      missing == videos_missing(unique, avail)
      job_id == nextJob + 1
      job_data == [NoJob EXCEPT !.status = "Processing", !.videoIds = available,
                                !.segments = available_segments(segments, Range(available)),
                                !.originalSegments = segments,
                                !.videosAvailable = available,
                                !.videosMissing = missing]
      msg == Message(job_id, job_data.videoIds, job_data.segments, "datetime")
  IN
  /\ http.handler # "none" => http.code # 0
  /\ IF \/ request_error(body) # NoText
        \/ available = <<>>
        \/ publish_raises(serialize_job_data_for_pubsub(msg), accepted)
     THEN processVideoJob_without_acquisition(body, avail, accepted)
     ELSE /\ nextJob < MaxJobs
          /\ nextJob' = job_id
          /\ Outcome(accepted)
          /\ jobs' = update_job_status([jobs EXCEPT ![job_id] = job_data], job_id,
                       "Processing", 20,
                       IF missing # <<>>
                       THEN "Processing available videos - some videos missing from storage"
                       ELSE "All videos found in storage - processing segments...",
                       NoText, NoUrl, NoSuggestions)
          /\ queue' = publish_video_processing_job(queue, msg)
          /\ http' = Response("processVideoJob_without_acquisition", body, 0, job_id)
          /\ UNCHANGED <<bucket, w, deliveries, resumes, index, apify_runs, resumed>>

\* processVideoJob from the write after the publish to the response
processVideoJob_queued ==
  /\ InFlight("processVideoJob_without_acquisition")
  /\ jobs' = update_job_status(jobs, http.jobId, "Queued", 25,
               "Job queued for processing", NoText, NoUrl, NoSuggestions)
  /\ http' = [http EXCEPT !.code = 201]
  /\ UNCHANGED <<queue, bucket, w, nextJob, deliveries, resumes, faults, index,
                 apify_runs, resumed>>

\* resumeVideoJob up to the return of publish_video_processing_job
resumeVideoJob_publish(job_id, avail, accepted) ==
  LET job_data == jobs[job_id]
      segments == IF job_data.originalSegments # <<>> THEN job_data.originalSegments
                  ELSE job_data.segments
      unique == unique_video_ids(segments)
      available == videos_available(unique, avail)
      missing == videos_missing(unique, avail)
      updated_job_data ==
        [job_data EXCEPT !.videoIds = available,
                         !.segments = available_segments(segments, Range(available)),
                         !.status = "Processing",
                         !.videosAvailable = available,
                         !.videosMissing = missing]
      msg == Message(job_id, updated_job_data.videoIds, updated_job_data.segments,
                     "datetime")
  IN
  /\ http.handler # "none" => http.code # 0
  /\ IF \/ job_data.status = NoStatus
        \/ available = <<>>
        \/ publish_raises(serialize_job_data_for_pubsub(msg), accepted)
     THEN resumeVideoJob(job_id, avail, accepted)
     ELSE /\ resumes < MaxResumes
          /\ segments # <<>>
          /\ resumes' = resumes + 1
          /\ resumed' = [resumed EXCEPT ![job_id] = Failure(job_data)]
          /\ Outcome(accepted)
          /\ jobs' = update_job_status([jobs EXCEPT ![job_id] = updated_job_data], job_id,
                       "Processing", 20,
                       IF missing # <<>>
                       THEN "Resumed processing available videos - some videos missing from storage"
                       ELSE "Resumed - all videos found in storage",
                       NoText, NoUrl, NoSuggestions)
          /\ queue' = publish_video_processing_job(queue, msg)
          /\ http' = Response("resumeVideoJob", NoBody, 0, job_id)
          /\ UNCHANGED <<bucket, w, nextJob, deliveries, index, apify_runs>>

\* resumeVideoJob from the write after the publish to the response
resumeVideoJob_queued ==
  /\ InFlight("resumeVideoJob")
  /\ jobs' = update_job_status(jobs, http.jobId, "Queued", 25,
               "Job resumed and queued for processing", NoText, NoUrl, NoSuggestions)
  /\ http' = [http EXCEPT !.code = 200]
  /\ UNCHANGED <<queue, bucket, w, nextJob, deliveries, resumes, faults, index,
                 apify_runs, resumed>>

NextRace ==
  \/ /\ nextJob < MaxJobs
     /\ \E request \in RequestsWithoutAcquisition, avail \in SUBSET Videos,
           accepted \in BOOLEAN :
          processVideoJob_publish(Body("list", request), avail, accepted)
  \/ processVideoJob_queued
  \/ /\ w.pc = "idle" /\ queue = <<>>
     /\ \E j \in JobIds, avail \in SUBSET Videos, accepted \in BOOLEAN :
          resumeVideoJob_publish(j, avail, accepted)
  \/ resumeVideoJob_queued
  \/ \E n \in 1..Len(queue) : Deliver(n)
  \/ psj_start
  \/ video_loop
  \/ video_timeout_handler
  \/ find_video
  \/ pvs_begin
  \/ pvs_segment
  \/ pvs_segments_done
  \/ pvs_concat
  \/ pvs_except
  \/ video_error
  \/ video_timeout
  \/ after_loop
  \/ combine_multiple_videos
  \/ upload_to_gcs_start
  \/ upload_to_gcs_run
  \/ psj_complete
  \/ pvj_complete
  \/ pvj_except
  \/ Ack

SpecRace == Init /\ [][NextRace]_vars

\* --------------------------- the deployment with a background thread (main.py)
\* processVideoJob of main.py starts a thread per job when every asset is in
\* storage.  The thread runs background_task, which arms a job-level timer
\* and calls process_segments_for_job; that function, find_video_file_fuse
\* and upload_to_gcs are the same as the consumer's, process_video_segments
\* and combine_multiple_videos are not.  w is the thread.

\* processVideoJob, every asset available: the document, the write of 50 and
\* start_background_processing, up to timeout_timer.start()
start_background_processing(body) ==
  LET segments == body.segments
      unique_video_ids_ == unique_video_ids(segments)
      job_id == nextJob + 1
  IN
  /\ w.pc = "idle"
  /\ nextJob < MaxJobs
  /\ request_error(body) = NoText
  /\ nextJob' = job_id
  /\ jobs' = update_job_status(
               [jobs EXCEPT ![job_id] =
                  [NoJob EXCEPT !.status = "Processing", !.videoIds = unique_video_ids_,
                                !.segments = segments,
                                !.videosAlreadyAvailable = unique_video_ids_]],
               job_id, "Processing", 50,
               "All videos found in storage - starting segment processing...",
               NoText, NoUrl, NoSuggestions)
  /\ w' = [Idle EXCEPT !.pc = "background_task", !.job_id = job_id,
                       !.videoIds = unique_video_ids_, !.segments = segments,
                       !.timeout_timer = "running"]
  /\ http' = Response("processVideoJob", body, 201, job_id)
  /\ UNCHANGED <<queue, bucket, deliveries, resumes, faults, index, apify_runs, resumed>>

\* the timer thread: timeout_handler sets the flag and writes Failed.  It
\* runs whenever the timer expires before it is cancelled, wherever the
\* thread is.
timeout_handler ==
  /\ w.timeout_timer = "running"
  /\ w' = [w EXCEPT !.timeout_flag = TRUE, !.timeout_timer = "fired"]
  /\ jobs' = update_job_status(jobs, w.job_id, "Failed", NoProgress, NoText,
               "Processing timed out after 30 minutes", NoUrl,
               <<"The video processing took too long and was terminated",
                 "Try selecting shorter video segments (max 2-3 minutes each)",
                 "Reduce the number of videos in your request (max 3-5 videos)",
                 "The system may be experiencing high load - try again in a few minutes">>)
  /\ UNCHANGED <<queue, bucket, nextJob, http, index, apify_runs, resumed, deliveries,
                 resumes, faults>>

\* timeout_timer.cancel(): no effect on a timer that has fired
cancel(timer) == IF timer = "running" THEN "cancelled" ELSE timer

\* background_task: its first write and the check of the flag before the
\* call of process_segments_for_job
background_task ==
  /\ w.pc = "background_task"
  /\ ConsumerWrite("Processing", 50, "Starting optimized video segment processing...",
                   NoText, NoUrl, NoSuggestions,
                   IF w.timeout_flag
                   THEN [w EXCEPT !.result = "returned", !.pc = "done"]
                   ELSE [w EXCEPT !.pc = "psj_start"])
  /\ UNCHANGED <<queue, bucket, nextJob, http, index, apify_runs, resumed, deliveries,
                 resumes, faults>>

\* the suggestions of process_video_segments' except clause, by keyword
background_pvs_suggestions(error_msg) ==
  IF error_msg = "FFmpeg processing failed: Unknown error"
  THEN <<"FFmpeg processing failed - video encoding issue",
         "Try selecting shorter segments or fewer videos">>
  ELSE <<"Video processing encountered an unexpected error">>

\* second flag check of the per-video loop, then process_video_segments of
\* main.py up to its first write
background_pvs_begin ==
  /\ w.pc = "check2"
  /\ LET valid == validate_segments(video_segments(w.segments, video_id_of(w)))
     IN
     IF w.video_timeout_flag
     THEN w' = [w EXCEPT !.timer = "cancelled", !.pc = "video_timeout"] /\ jobs' = jobs
     ELSE IF valid = <<>>
     THEN /\ w' = [w EXCEPT !.exc = "No valid segments to process",
                            !.pc = "background_pvs_except"]
          /\ jobs' = jobs
     ELSE ConsumerWrite("Processing", 60, "Processing video segments...",
                        NoText, NoUrl, NoSuggestions,
                        [w EXCEPT !.valid_segments = valid,
                                  !.pc = "background_pvs_run"])
  /\ UNCHANGED <<queue, bucket, nextJob, http, index, apify_runs, resumed, deliveries,
                 resumes, faults>>

\* process_video_segments of main.py: the write of 75 and the one run of
\* the filter graph, which trims and concatenates the valid segments in
\* their order.  ran: ffmpeg.run produced the output file.
background_pvs_run ==
  /\ w.pc = "background_pvs_run"
  /\ \E ran \in BOOLEAN :
       /\ Outcome(ran)
       /\ ConsumerWrite("Processing", 75, "Encoding final video...",
                        NoText, NoUrl, NoSuggestions,
                        IF ran
                        THEN [w EXCEPT !.all_processed_segments =
                                          Append(@, [videoId |-> video_id_of(w),
                                                     parts |->
                                                       [n \in 1..Len(w.valid_segments) |->
                                                          segment_cut(w.valid_segments[n])]]),
                                       !.timer = "cancelled", !.pc = "video_loop"]
                        ELSE [w EXCEPT !.exc = "FFmpeg processing failed: Unknown error",
                                       !.pc = "background_pvs_except"])
  /\ UNCHANGED <<queue, bucket, nextJob, http, index, apify_runs, resumed, deliveries,
                 resumes>>

\* the except clause of process_video_segments of main.py
background_pvs_except ==
  /\ w.pc = "background_pvs_except"
  /\ ConsumerWrite("Failed", NoProgress, NoText, w.exc, NoUrl,
                   background_pvs_suggestions(w.exc),
                   [w EXCEPT !.timer = "cancelled",
                             !.exc = "Failed to process video segments: " \o w.exc,
                             !.pc = "video_error"])
  /\ UNCHANGED <<queue, bucket, nextJob, http, index, apify_runs, resumed, deliveries,
                 resumes, faults>>

\* combine_multiple_videos of main.py: its write, then one libx264 run over
\* the clips in the order of video_paths
background_combine_multiple_videos ==
  /\ w.pc = "combine"
  /\ \E combined \in BOOLEAN :
       /\ Outcome(combined)
       /\ ConsumerWrite("Processing", 80, "Combining multiple video segments...",
                        NoText, NoUrl, NoSuggestions,
                        IF combined
                        THEN [w EXCEPT !.final_video = w.all_processed_segments,
                                       !.pc = "upload"]
                        ELSE [w EXCEPT !.exc = "Video combination failed: Unknown ffmpeg error",
                                       !.temp_dir = FALSE, !.pc = "pvj_except"])
  /\ UNCHANGED <<queue, bucket, nextJob, http, index, apify_runs, resumed, deliveries,
                 resumes>>

\* background_task after process_segments_for_job returned
background_task_return ==
  /\ w.pc = "pvj_complete"
  /\ w' = [w EXCEPT !.timeout_timer = cancel(@), !.result = "returned", !.pc = "done"]
  /\ UNCHANGED <<jobs, queue, bucket, nextJob, http, index, apify_runs, resumed,
                 deliveries, resumes, faults>>

\* the suggestions of background_task's except clause, by keyword in the
\* text of the exception, which for a job without a clip lists the reasons
\* of failed_videos
error_suggestions(error_msg, failed_videos) ==
  LET reasons == {failed_videos[n].reason : n \in 1..Len(failed_videos)}
      listed == error_msg = "No video segments were successfully processed"
  IN
  IF listed /\ "timeout" \in reasons
  THEN <<"Video processing timed out - this usually happens with very long videos or segments",
         "Try selecting shorter video segments (max 2-3 minutes each)",
         "Reduce the number of videos in your request (max 3-5 videos)",
         "The system may be experiencing high load - try again in 10-15 minutes">>
  ELSE IF \/ listed /\ "Failed to process video segments: FFmpeg processing failed: Unknown error"
                        \in reasons
          \/ error_msg = "Video combination failed: Unknown ffmpeg error"
  THEN <<"Video encoding failed - this is usually due to invalid timestamps",
         "Make sure your start and end times are within the video duration",
         "Try selecting different time ranges for your segments",
         "Avoid segments shorter than 5 seconds or longer than 10 minutes">>
  ELSE IF listed /\ "Video file not found in mounted bucket" \in reasons
  THEN <<"Failed to download source videos from storage",
         "Some videos may not be available or may have been moved",
         "Try selecting different videos or check that the video IDs are correct",
         "If this persists, the video may need to be re-uploaded to storage">>
  ELSE IF listed
  THEN <<"All video processing attempts failed",
         "This could be due to invalid video files or corrupted timestamps",
         "Try selecting different videos or different time segments",
         "Check that your segments are within the actual video duration">>
  ELSE <<"Video segment processing encountered an unexpected error",
         "This could be due to video encoding issues or invalid timestamps",
         "Try selecting different video segments or shorter clips",
         "If the problem persists, please contact support with this job ID">>

\* background_task's except clause: no write when the flag is set
background_task_except ==
  /\ w.pc = "pvj_except"
  /\ IF w.timeout_flag
     THEN /\ w' = [w EXCEPT !.result = "returned", !.pc = "done"]
          /\ jobs' = jobs
     ELSE ConsumerWrite("Failed", NoProgress, NoText, w.exc, NoUrl,
                        error_suggestions(w.exc, w.failed_videos),
                        [w EXCEPT !.timeout_timer = cancel(@), !.result = "returned",
                                  !.pc = "done"])
  /\ UNCHANGED <<queue, bucket, nextJob, http, index, apify_runs, resumed, deliveries,
                 resumes, faults>>

NextBackground ==
  \/ \E request \in RequestsWithoutAcquisition :
       start_background_processing(Body("list", request))
  \/ timeout_handler
  \/ background_task
  \/ psj_start
  \/ video_loop
  \/ video_timeout_handler
  \/ find_video
  \/ background_pvs_begin
  \/ background_pvs_run
  \/ background_pvs_except
  \/ video_error
  \/ video_timeout
  \/ after_loop
  \/ background_combine_multiple_videos
  \/ upload_to_gcs_start
  \/ upload_to_gcs_run
  \/ psj_complete
  \/ background_task_return
  \/ background_task_except

SpecBackground == Init /\ [][NextBackground]_vars

\* ================================================================ claims
Terminal == {"Complete", "Failed"}

\* the iteration of the per-video loop for asset v is still running
InIteration(v) ==
  /\ w.pc \in {"find", "check2", "pvs_segment", "pvs_concat", "pvs_except",
               "video_error", "video_timeout"}
  /\ video_id_of(w) = v

\* index of the first segment of a list that names asset v
FirstAppearance(segs, v) ==
  CHOOSE n \in 1..Len(segs) :
    /\ segs[n].videoId = v
    /\ \A k \in 1..(n - 1) : segs[k].videoId # v

\* a is b with some elements left out
IsSubsequence(a, b) ==
  \E f \in [1..Len(a) -> 1..Len(b)] :
    /\ \A n \in 1..Len(a) : a[n] = b[f[n]]
    /\ \A n \in 1..(Len(a) - 1) : f[n] < f[n + 1]

\* what the request asks to be cut from asset v, in the order of the request
RequestedCuts(segs, v) ==
  LET mine == SelectSeq(segs, LAMBDA s : s.videoId = v)
  IN [n \in 1..Len(mine) |->
        [ss |-> mine[n].startTimeSeconds,
         t |-> mine[n].endTimeSeconds - mine[n].startTimeSeconds]]

\* C1: an execution in which no asset group's extraction has succeeded has
\* not written Uploading or Complete and has not set finalVideoUrl, and when
\* it ends that way the last status it wrote is Failed.
C1_ZeroSuccessEndsFailed ==
  (w.pc # "idle" /\ w.all_processed_segments = <<>>) =>
    /\ "Uploading" \notin w.wrote
    /\ "Complete" \notin w.wrote
    /\ ~w.setUrl
    /\ w.pc = "done" => w.last = "Failed"

\* two asset groups were attempted, both failed, and the execution ended
C1_Witness ==
  /\ w.pc = "done"
  /\ w.all_processed_segments = <<>>
  /\ Len(w.failed_videos) = 2
  /\ w.last = "Failed"
  /\ jobs[w.job_id].status = "Failed"

\* C2: when an execution ends after at least one asset group succeeded and
\* the combination and the upload succeeded, the job's status is Complete,
\* its progress 100 and finalVideoUrl is set, whether or not other groups
\* failed.
C2_PartialSuccessCompletes ==
  [][(/\ w.pc # "done" /\ w'.pc = "done"
      /\ w'.all_processed_segments # <<>>
      /\ w'.final_video # <<>>
      /\ w'.public_url # NoUrl)
     => /\ jobs'[w'.job_id].status = "Complete"
        /\ jobs'[w'.job_id].progress = 100
        /\ jobs'[w'.job_id].finalVideoUrl # NoUrl]_vars

\* an execution ended Complete although one of its asset groups had failed
C2_Witness ==
  /\ w.pc = "done"
  /\ w.result = "success"
  /\ w.failed_videos # <<>>
  /\ w.all_processed_segments # <<>>
  /\ jobs[w.job_id].status = "Complete"
  /\ jobs[w.job_id].finalVideoUrl = w.public_url

\* C3: once a job's status is Failed, no step other than a resumeVideoJob
\* request changes it to another value.
C3_FailedIsTerminal ==
  [][\A j \in JobIds :
       (jobs[j].status = "Failed" /\ jobs'[j].status # "Failed")
         => resumes' # resumes]_vars

\* C4: once a job is Complete with finalVideoUrl set, no step of the
\* consumer (a redelivered work message) changes its status.
C4_CompleteSurvivesRedelivery ==
  [][\A j \in JobIds :
       (/\ jobs[j].status = "Complete"
        /\ jobs[j].finalVideoUrl # NoUrl
        /\ resumes' = resumes)
         => jobs'[j].status = "Complete"]_vars

\* C5: every object an execution for job J uploads has the key
\* edited-clips/J/final_video.mp4, and the bucket never holds two objects
\* of one job.
C5_OneArtifactKeyPerJob ==
  /\ \A o \in bucket : o.key = <<"edited-clips", o.job, "final_video.mp4">>
  /\ \A o1 \in bucket, o2 \in bucket : o1.job = o2.job => o1 = o2

\* a second execution of the job has uploaded over the first one's artifact
C5_Witness ==
  /\ deliveries = 2
  /\ \E o \in bucket : o.generation = 2 /\ o.job = w.job_id
  /\ Cardinality(bucket) = 1

\* C6: while a job's status is not terminal, no write lowers its progress.
C6_ProgressNeverDecreases ==
  [][\A j \in JobIds :
       (jobs[j].status \notin Terminal \cup {NoStatus} /\ jobs[j].progress # NoProgress)
         => jobs'[j].progress >= jobs[j].progress]_vars

\* C7: the progress of every job record, when set, is between 0 and 100.
C7_ProgressInRange ==
  \A j \in JobIds :
    jobs[j].progress # NoProgress => jobs[j].progress \in 0..100

\* the per-video write for the first of three assets, int(55 + 25/3)
C7_Witness ==
  /\ w.pc = "find"
  /\ Len(w.order) = 3
  /\ w.processed_videos = 1
  /\ jobs[w.job_id].progress = 63

\* C8: the intermediate clips accumulated for combine_multiple_videos are
\* in the order in which their assets first appear in the job's segments.
C8_ClipsInFirstAppearanceOrder ==
  \A a \in 1..Len(w.all_processed_segments), b \in 1..Len(w.all_processed_segments) :
    a < b =>
      FirstAppearance(w.segments, w.all_processed_segments[a].videoId)
        < FirstAppearance(w.segments, w.all_processed_segments[b].videoId)

\* combine_multiple_videos is about to get the clips of C and A, requested
\* in the order C, B, A, after B failed in between
C8_Witness ==
  /\ w.pc = "combine"
  /\ w.order = <<"C", "B", "A">>
  /\ Len(w.all_processed_segments) = 2
  /\ w.all_processed_segments[1].videoId = "C"
  /\ w.all_processed_segments[2].videoId = "A"
  /\ Len(w.failed_videos) = 1 /\ w.failed_videos[1].videoId = "B"

\* C9: the sub-clips of an asset are concatenated in the order in which the
\* request lists the asset's segments.
C9_SegmentsInSubmissionOrder ==
  /\ w.pc \in {"pvs_segment", "pvs_concat"} =>
       IsSubsequence(w.segment_files, RequestedCuts(w.segments, video_id_of(w)))
  /\ \A n \in 1..Len(w.all_processed_segments) :
       IsSubsequence(w.all_processed_segments[n].parts,
                     RequestedCuts(w.segments, w.all_processed_segments[n].videoId))

\* the request lists A's later range before its earlier one, and the clip
\* of A holds them in that order
C9_Witness ==
  \E n \in 1..Len(w.all_processed_segments) :
    /\ w.all_processed_segments[n].videoId = "A"
    /\ w.all_processed_segments[n].parts = <<[ss |-> 1, t |-> 2], [ss |-> 0, t |-> 1]>>

\* C10: an asset whose timer expired while its extraction was running is,
\* once its iteration is over, in the failure list with reason timeout and
\* has no clip among the processed ones.
C10_ExpiredAssetIsSkipped ==
  \A v \in w.expired :
    ~InIteration(v) =>
      /\ \E n \in 1..Len(w.failed_videos) :
           w.failed_videos[n].videoId = v /\ w.failed_videos[n].reason = "timeout"
      /\ \A n \in 1..Len(w.all_processed_segments) :
           w.all_processed_segments[n].videoId # v

\* q2 is q1 with one message for job j added at its end
OneMessageAdded(q1, q2, j) ==
  /\ Len(q2) = Len(q1) + 1
  /\ SubSeq(q2, 1, Len(q1)) = q1
  /\ q2[Len(q2)].jobId = j

\* the handlers named processVideoJob
ProcessVideoJobHandlers == {"processVideoJob", "processVideoJob_without_acquisition"}

\* C11: a processVideoJob request of the deployment with acquisition whose
\* assets are all in storage creates a job that is not Downloading and
\* publishes its work message in the same request; with an asset missing
\* the job is created Downloading and nothing is published.  No job enters
\* Downloading later, and a work message for a job that is Downloading is
\* published by handleVideoDownloadSuccess only.
C11_AcquisitionRouting ==
  [][/\ (nextJob' # nextJob /\ http'.handler = "processVideoJob") =>
          LET j == nextJob'
              d == jobs'[j]
          IN IF Range(d.videosAlreadyAvailable) = Range(d.videoIds)
             THEN /\ d.status # "Downloading"
                  /\ faults' = faults => OneMessageAdded(queue, queue', j)
             ELSE /\ d.status = "Downloading"
                  /\ queue' = queue
     /\ \A j \in JobIds :
          /\ (jobs[j].status # "Downloading" /\ jobs'[j].status = "Downloading")
               => /\ jobs[j].status = NoStatus
                  /\ jobs'[j].videosNeedingDownload # <<>>
          /\ (jobs[j].status = "Downloading" /\ OneMessageAdded(queue, queue', j)
              /\ resumes' = resumes)
               => http'.handler = "handleVideoDownloadSuccess"]_vars

\* a job with one asset in storage and one missing was created Downloading
\* and nothing was published
C11_Witness ==
  /\ http.handler = "processVideoJob" /\ http.code = 201
  /\ jobs[http.jobId].status = "Downloading"
  /\ jobs[http.jobId].videosAlreadyAvailable # <<>>
  /\ jobs[http.jobId].videosNeedingDownload # <<>>
  /\ queue = <<>>

\* C12: handleVideoDownloadSuccess for a job that is Downloading, when the
\* topic takes the message, publishes one work message with the record's
\* videoIds and segments and leaves the job Queued.
C12_CallbackQueuesJob ==
  [][(/\ http' # http
      /\ http'.handler = "handleVideoDownloadSuccess"
      /\ jobs[http'.jobId].status = "Downloading"
      /\ faults' = faults)
     => /\ OneMessageAdded(queue, queue', http'.jobId)
        /\ queue'[Len(queue')].videoIds = jobs[http'.jobId].videoIds
        /\ queue'[Len(queue')].segments = jobs[http'.jobId].segments
        /\ jobs'[http'.jobId].status = "Queued"]_vars

\* C13: a processVideoJob request of the deployment without acquisition
\* that is answered 201 has created a job record, published exactly one
\* work message with that job's id, and no step of the pipeline is part of
\* the request.
C13_AcceptPublishesOnce ==
  [][(/\ http' # http
      /\ http'.handler = "processVideoJob_without_acquisition"
      /\ http'.code = 201)
     => /\ http'.jobId = nextJob'
        /\ nextJob' = nextJob + 1
        /\ jobs[http'.jobId].status = NoStatus
        /\ jobs'[http'.jobId].status # NoStatus
        /\ OneMessageAdded(queue, queue', http'.jobId)
        /\ w' = w
        /\ deliveries' = deliveries]_vars

\* a request was answered 201 and its one message waits on the topic
C13_Witness ==
  /\ http.handler = "processVideoJob_without_acquisition" /\ http.code = 201
  /\ Len(queue) = 1 /\ queue[1].jobId = http.jobId
  /\ jobs[http.jobId].status = "Queued"
  /\ jobs[http.jobId].videosMissing # <<>>
  /\ w.pc = "idle"

\* a request body that is malformed
Malformed(body) ==
  \/ body.kind # "list"
  \/ body.segments = <<>>
  \/ \E n \in 1..Len(body.segments) : body.segments[n].videoId = ""

RequestOf(d) == IF d.originalSegments # <<>> THEN d.originalSegments ELSE d.segments

\* C15: the videoIds of a job record are ids of the request's segments, in
\* the order of their first appearance there and without duplicates, and
\* they are the ids of the segments the record stores.
C15_VideoIdsFirstAppearance ==
  \A j \in JobIds :
    jobs[j].status # NoStatus =>
      LET ids == jobs[j].videoIds
          req == RequestOf(jobs[j])
      IN /\ \A n \in 1..Len(ids) : \E k \in 1..Len(req) : req[k].videoId = ids[n]
         /\ \A a \in 1..Len(ids), b \in 1..Len(ids) :
              a < b => FirstAppearance(req, ids[a]) < FirstAppearance(req, ids[b])
         /\ Range(ids) = {jobs[j].segments[k].videoId : k \in 1..Len(jobs[j].segments)}

\* the request names B, A, B and the record lists B, A
C15_Witness ==
  \E j \in JobIds :
    /\ Len(jobs[j].segments) = 3
    /\ jobs[j].segments[1].videoId = "B"
    /\ jobs[j].segments[2].videoId = "A"
    /\ jobs[j].segments[3].videoId = "B"
    /\ jobs[j].videoIds = <<"B", "A">>

\* C16: a job record that comes into being in a request during which
\* nothing fails in the environment has status Queued or Downloading.
C16_CreatedQueuedOrDownloading ==
  [][\A j \in JobIds :
       (jobs[j].status = NoStatus /\ jobs'[j].status # NoStatus /\ faults' = faults)
         => jobs'[j].status \in {"Queued", "Downloading"}]_vars

\* the record was created by the deployment without acquisition
CreatedWithoutAcquisition(d) == d.originalSegments # <<>> \/ d.videosMissing # <<>>

\* C17: a resumeVideoJob request for job J creates no job record and
\* publishes at most one work message, whose jobId is J; when it goes on
\* (200) the message is published and videosAvailable and videosMissing are
\* a partition of the ids of J's original segments.
C17_ResumeKeepsIdentity ==
  [][((http' # http \/ resumes' # resumes) /\ http'.handler = "resumeVideoJob") =>
       LET j == http'.jobId
           req == RequestOf(jobs[j])
           d == jobs'[j]
       IN /\ nextJob' = nextJob
          /\ \A k \in JobIds : (jobs[k].status = NoStatus) = (jobs'[k].status = NoStatus)
          /\ \A k \in JobIds \ {j} : jobs'[k] = jobs[k]
          /\ queue' = queue \/ OneMessageAdded(queue, queue', j)
          /\ http'.code = 200 => OneMessageAdded(queue, queue', j)
          /\ (http'.code = 200 \/ (d.status # NoStatus /\ CreatedWithoutAcquisition(jobs[j]))) =>
               /\ Range(d.videosAvailable) \cap Range(d.videosMissing) = {}
               /\ Range(d.videosAvailable) \cup Range(d.videosMissing)
                    = {req[k].videoId : k \in 1..Len(req)}]_vars

\* a job was resumed with one asset in storage and one missing
C17_Witness ==
  /\ http.handler = "resumeVideoJob" /\ http.code = 200
  /\ resumes = 1
  /\ jobs[http.jobId].videosAvailable # <<>>
  /\ jobs[http.jobId].videosMissing # <<>>
  /\ Len(queue) = 1 /\ queue[1].jobId = http.jobId

\* C18: a resumeVideoJob request for a job that is Queued, Processing,
\* Uploading or Complete changes no record and publishes nothing.
C18_ResumeOnlyWhenFailed ==
  [][(/\ resumes' # resumes
      /\ jobs[http'.jobId].status \in {"Queued", "Processing", "Uploading", "Complete"})
     => /\ jobs' = jobs
        /\ queue' = queue]_vars

\* the listings with the same names as l
Reorderings(l) ==
  {[n \in 1..Len(l) |-> l[f[n]]] :
     f \in {g \in [1..Len(l) -> 1..Len(l)] :
              \A a \in 1..Len(l), b \in 1..Len(l) : a # b => g[a] # g[b]}}

\* C19: the name check_existing_videos_in_gcs returns for an id is the
\* same whatever the order of the listing, and it is None when no name of
\* the listing matches a pattern.
C19_PatternPriority ==
  (existing_videos.by = "check_existing_videos_in_gcs" /\ existing_videos.listed) =>
    \A v \in Range(video_ids) :
      /\ (\A n \in 1..Len(blobs_list), k \in 1..Len(video_patterns) :
            ~pattern_matches(video_patterns[k], v, blobs_list[n]))
           => existing_videos.result[v] = NoBlob
      /\ \A l \in Reorderings(blobs_list) :
           check_existing_videos_in_gcs(video_ids, l, TRUE)[v] = existing_videos.result[v]

Dropped(s) ==
  \/ s.startTimeSeconds < 0
  \/ s.endTimeSeconds <= s.startTimeSeconds
  \/ s.startTimeSeconds >= VideoDuration

\* the start and end of the other segments of a list, in its order
Kept(segs) ==
  LET keep == SelectSeq(segs, LAMBDA s : ~Dropped(s))
  IN [n \in 1..Len(keep) |->
        [start |-> keep[n].startTimeSeconds, end |-> keep[n].endTimeSeconds]]

\* the start and end of the segments the sub-clips of a list were cut for
\* (the codec is asked for t = end - start seconds from ss = start)
CutFor(files) ==
  [n \in 1..Len(files) |-> [start |-> files[n].ss, end |-> files[n].ss + files[n].t]]

\* the segments of the asset process_video_segments is working on
AssetSegments == video_segments(w.segments, video_id_of(w))

Min(a, b) == IF a < b THEN a ELSE b

\* C21: process_video_segments drops exactly the segments with start < 0,
\* end <= start or start >= asset duration and cuts a sub-clip for every
\* other one (when the codec does not fail), and it fails for want of
\* segments only when none remains.
C21_DropsExactlyInvalidSegments ==
  (faults = 0 /\ w.processed_videos > 0) =>
    /\ (w.pc \in {"pvs_concat", "video_loop"} /\ w.segment_files # <<>>)
          => CutFor(w.segment_files) = Kept(AssetSegments)
    /\ (w.pc = "pvs_except" /\ w.exc \in {"No valid segments to process",
                                          "No valid video segments could be created"})
          => Kept(AssetSegments) = <<>>

\* three segments: one starts before the asset, one at its end, one is
\* good; the clip of the asset was made from the good one alone
C21_Witness ==
  /\ faults = 0
  /\ w.pc = "video_loop"
  /\ Len(w.all_processed_segments) = 1
  /\ Len(AssetSegments) = 3
  /\ \E n \in 1..3 : AssetSegments[n].startTimeSeconds < 0
  /\ \E n \in 1..3 : /\ AssetSegments[n].startTimeSeconds >= VideoDuration
                      /\ AssetSegments[n].endTimeSeconds > AssetSegments[n].startTimeSeconds
  /\ Len(w.segment_files) = 1

\* C22: the duration asked of the codec for a sub-clip ends at the end of
\* the asset (asset duration - start when the segment ends beyond it), and
\* the duration the output is compared with is the sum of these durations
\* over the sub-clips cut.
C22_ClampedDurationRequested ==
  (w.pc = "pvs_concat") =>
    /\ \A n \in 1..Len(w.segment_files) :
         w.segment_files[n].t =
           Min(CutFor(w.segment_files)[n].end, VideoDuration) - w.segment_files[n].ss
    /\ w.total_segment_duration =
         total_segment_duration(
           [n \in 1..Len(w.segment_files) |->
              [duration |-> Min(CutFor(w.segment_files)[n].end, VideoDuration)
                              - w.segment_files[n].ss]])

\* C23: a clip process_video_segments returns is made of the sub-clips of
\* all valid in-range segments of the asset, none left out: a codec
\* failure on one of them fails the extraction of the asset.
C23_ClipHasEverySegment ==
  \A n \in 1..Len(w.all_processed_segments) :
    CutFor(w.all_processed_segments[n].parts)
      = Kept(video_segments(w.segments, w.all_processed_segments[n].videoId))

\* ------------------------------------------------------ the end of a job
\* C24: an execution that a job-level error ends (no asset succeeded, the
\* combination or the upload failed) leaves the job Failed with the error
\* of the execution and a non-empty suggestions list, and has not written
\* finalVideoUrl.
C24_JobLevelErrorEndsFailed ==
  (w.pc = "done" /\ w.result = "raised") =>
    /\ jobs[w.job_id].status = "Failed"
    /\ jobs[w.job_id].error # NoText
    /\ jobs[w.job_id].error = w.exc
    /\ jobs[w.job_id].suggestions # NoSuggestions
    /\ ~w.setUrl

\* the combination of the clips of two assets failed
C24_Witness ==
  /\ w.pc = "done"
  /\ w.result = "raised"
  /\ Len(w.all_processed_segments) = 2
  /\ w.exc = "ffmpeg-python error"
  /\ jobs[w.job_id].status = "Failed"
  /\ Len(jobs[w.job_id].suggestions) = 3

\* part occurs in text
Contains(text, part) ==
  \E k \in 1..(Len(text) - Len(part) + 1) : SubSeq(text, k, k + Len(part) - 1) = part

\* a text names an asset, the way the messages of the consumer do
\* ("video <id>"), and says of a timeout that it was one
Note(text, failed) ==
  /\ Contains(text, "ideo " \o failed.videoId)
  /\ failed.reason = "timeout" => Contains(text, "timed out")

\* C25: when an execution ends Complete after assets failed, the
\* progressMessage or the suggestions of the job name each asset that was
\* skipped, and say so of a timeout.
C25_CompleteNamesSkippedAssets ==
  (w.pc = "done" /\ w.result = "success") =>
    \A n \in 1..Len(w.failed_videos) :
      \/ Note(jobs[w.job_id].progressMessage, w.failed_videos[n])
      \/ \E k \in 1..Len(jobs[w.job_id].suggestions) :
           Note(jobs[w.job_id].suggestions[k], w.failed_videos[n])

\* the arguments of a call of update_job_status, but for the status
Patch(progress, message, error, video_url, suggestions) ==
  [progress |-> progress, message |-> message, error |-> error,
   video_url |-> video_url, suggestions |-> suggestions]

\* calls that name nothing but the status, one more argument, the
\* arguments the callers name together, and every argument
PatchArgs ==
  {Patch(NoProgress, NoText, NoText, NoUrl, NoSuggestions),
   Patch(0, NoText, NoText, NoUrl, NoSuggestions),
   Patch(NoProgress, "m", NoText, NoUrl, NoSuggestions),
   Patch(NoProgress, NoText, "e", NoUrl, NoSuggestions),
   Patch(NoProgress, NoText, NoText, <<"u">>, NoSuggestions),
   Patch(NoProgress, NoText, NoText, NoUrl, <<"s">>),
   Patch(0, "m", NoText, NoUrl, NoSuggestions),
   Patch(NoProgress, NoText, "e", NoUrl, <<"s">>),
   Patch(0, "m", NoText, <<"u">>, NoSuggestions),
   Patch(0, "m", "e", <<"u">>, <<"s">>)}

\* the fields of a job document the dispatchers write
DispatcherFields ==
  {"videoIds", "segments", "originalSegments", "videosAlreadyAvailable",
   "videosNeedingDownload", "videosAvailable", "videosMissing"}

\* C26: update_job_status is an additive patch: whatever a job document
\* holds and whatever the call names, the fields of the document are
\* still there after the call, a field that was set is still set, and a
\* field the call does not name has the value it had.
C26_AdditivePatch ==
  \A j \in JobIds, a \in PatchArgs :
    \A before \in {jobs[j]},
       after \in {update_job_status(jobs, j, "Processing", a.progress, a.message,
                                    a.error, a.video_url, a.suggestions)[j]} :
       /\ DOMAIN after = DOMAIN before
       /\ \A f \in DispatcherFields : after[f] = before[f]
       /\ a.progress = NoProgress => after.progress = before.progress
       /\ a.message = NoText => after.progressMessage = before.progressMessage
       /\ a.error = NoText => after.error = before.error
       /\ a.video_url = NoUrl => after.finalVideoUrl = before.finalVideoUrl
       /\ a.suggestions = NoSuggestions => after.suggestions = before.suggestions
       /\ before.progress # NoProgress => after.progress # NoProgress
       /\ before.progressMessage # NoText => after.progressMessage # NoText
       /\ before.error # NoText => after.error # NoText
       /\ before.finalVideoUrl # NoUrl => after.finalVideoUrl # NoUrl
       /\ before.suggestions # NoSuggestions => after.suggestions # NoSuggestions

\* a document with every field of a patch set, and an execution whose
\* latest call named neither error nor suggestions nor finalVideoUrl
C26_Witness ==
  /\ w.pc = "psj_start"
  /\ w.last = "Processing"
  /\ jobs[w.job_id].status = "Processing"
  /\ jobs[w.job_id].progress = 50
  /\ jobs[w.job_id].error # NoText
  /\ jobs[w.job_id].suggestions # NoSuggestions
  /\ jobs[w.job_id].finalVideoUrl # NoUrl
  /\ jobs[w.job_id].segments # <<>>

\* C27: a job whose actor run never succeeds does not stay Downloading:
\* it becomes Failed, with an error text.
C27_DownloadingEndsFailed ==
  \A j \in JobIds :
    [](apify_runs[j] # "SUCCEEDED") =>
      ((jobs[j].status = "Downloading")
         ~> (jobs[j].status = "Failed" /\ jobs[j].error # NoText))

\* C28: when a job that was Failed, with error and suggestions, is resumed
\* and the execution of the resumed job completes with every asset
\* processed, the job has neither error nor suggestions any more.
C28_ResumeClearsFailure ==
  \A j \in JobIds :
    ( /\ resumed[j].status = "Failed"
      /\ resumed[j].error # NoText
      /\ resumed[j].suggestions # NoSuggestions
      /\ w.job_id = j
      /\ w.pc = "done"
      /\ w.result = "success"
      /\ w.failed_videos = <<>> )
    => (jobs[j].error = NoText /\ jobs[j].suggestions = NoSuggestions)

\* ------------------------------------------------------ the per-video loop
\* the positions of the consumer after the per-video loop
AfterLoop ==
  {"combine", "upload", "upload_run", "psj_complete", "pvj_complete", "pvj_except", "done"}

\* the number of clips and of failure entries of asset v
Entries(v) ==
  Cardinality({n \in 1..Len(w.all_processed_segments) :
                 w.all_processed_segments[n].videoId = v})
  + Cardinality({n \in 1..Len(w.failed_videos) : w.failed_videos[n].videoId = v})

\* C29: no early abort: between two iterations of the per-video loop every
\* asset group up to the current one has exactly one clip or one failure
\* entry and the later ones have none, and after the loop the clips and
\* the failure entries are as many as the asset groups.
C29_NoEarlyAbort ==
  /\ (w.pc = "video_loop" \/ w.pc \in AfterLoop) =>
        /\ Len(w.all_processed_segments) + Len(w.failed_videos) = w.processed_videos
        /\ \A k \in 1..Len(w.order) :
             Entries(w.order[k]) = IF k <= w.processed_videos THEN 1 ELSE 0
  /\ (w.pc \in AfterLoop) => w.processed_videos = Len(w.order)

\* three asset groups: the first failed, the other two were processed
C29_Witness ==
  /\ w.pc = "combine"
  /\ Len(w.order) = 3
  /\ Len(w.failed_videos) = 1
  /\ w.failed_videos[1].videoId = w.order[1]
  /\ Len(w.all_processed_segments) = 2

\* the positions of the consumer inside the try block that the timer of
\* the asset covers
UnderTimer == {"find", "check2", "pvs_segment", "pvs_concat", "pvs_except"}

\* C30: the timer of an asset is active only while the asset is being
\* extracted: it is cancelled when the extraction ends, normally or by an
\* exception, so none is active when the next one is started or after
\* the loop.
C30_TimerCancelled ==
  /\ w.timer = "running" => w.pc \in UnderTimer
  /\ (w.pc \in {"video_loop", "video_error", "video_timeout"} /\ w.processed_videos > 0)
        => w.timer = "cancelled"
  /\ w.pc \in AfterLoop /\ w.order # <<>> => w.timer = "cancelled"

\* before the third asset: the timer of the first ended with an exception,
\* that of the second with a clip
C30_Witness ==
  /\ w.pc = "video_loop"
  /\ Len(w.order) = 3
  /\ w.processed_videos = 2
  /\ Len(w.failed_videos) = 1
  /\ w.failed_videos[1].videoId = w.order[1]
  /\ Len(w.all_processed_segments) = 1
  /\ w.timer = "cancelled"

\* -------------------------------------------- failures of one asset's extraction
\* a segment the validation loop of process_video_segments drops
Invalid(s) == s.startTimeSeconds < 0 \/ s.endTimeSeconds <= s.startTimeSeconds

\* every segment of the asset of the current iteration is one of these
AllDropped(wr) ==
  \A n \in 1..Len(wr.segments) :
    wr.segments[n].videoId = video_id_of(wr) => Invalid(wr.segments[n])

\* C31: when validation drops every segment of an asset, the extraction
\* of the asset raises "No valid segments to process", the per-video loop
\* adds the asset to the failure list and goes on with the next asset, and
\* the loop ends the job only when no asset gave a clip.
C31_AllDroppedFailsAssetOnly ==
  [][ /\ ( /\ w.pc = "check2" /\ ~w.video_timeout_flag /\ AllDropped(w)
           /\ w'.pc # "check2" )
         => (w'.pc = "pvs_except" /\ w'.exc = "No valid segments to process")
      /\ ( /\ w.pc \in {"pvs_except", "video_error"}
           /\ w.exc = "No valid segments to process"
           /\ w'.pc # w.pc )
         => IF w.pc = "pvs_except"
            THEN w'.pc = "video_error" /\ w'.exc = w.exc
            ELSE /\ w'.pc = "video_loop"
                 /\ w'.failed_videos =
                      Append(w.failed_videos,
                             [videoId |-> video_id_of(w), reason |-> w.exc])
                 /\ w'.all_processed_segments = w.all_processed_segments
      /\ (w.pc = "video_loop" /\ w'.pc = "pvj_except")
         => w.all_processed_segments = <<>>
    ]_vars

\* the job reached the upload although the segments of one of its assets
\* were all dropped
C31_Witness ==
  /\ w.pc = "upload"
  /\ \E k \in 1..Len(w.failed_videos) :
       w.failed_videos[k].reason = "No valid segments to process"

\* the ffmpeg runs of an invocation that made the extraction of the asset fail
EngineFailure(wr) ==
  /\ wr.exc \in {"No valid video segments could be created",
                 "Video encoding failed: ffmpeg-python error"}
  /\ wr.runs # <<>>

\* C32: an ffmpeg invocation that fails during the extraction of an asset
\* is run a second time, re-encoding, before the asset fails: the asset is
\* failed only after a stream-copy run and one re-encode run have failed,
\* and no invocation is run more than twice.
C32_RetriedOnceBeforeFailing ==
  /\ Len(w.runs) <= 2
  /\ (w.pc = "video_error" /\ EngineFailure(w)) => w.runs = <<"copy", "reencode">>

\* ------------------------------------------------ failing Job Store writes
\* C33: whichever update_job_status calls of an execution fail, the
\* execution goes through the same assets, makes the same clips, records
\* the same failures and uploads the same file as another execution of the
\* same message in which other calls, or none, fail.
C33_WriteFailureKeepsControlFlow ==
  (w.pc = "done" /\ w.previous # NoResult) =>
    /\ ResultOf(w) = w.previous
    /\ w.result = "success" =>
          \E o \in bucket : o.key = blob_name(w.job_id) /\ o.generation > 1

\* the second execution of a job with a failed and a good asset lost its
\* last writes: the record is not Complete, the upload was made
C33_Witness ==
  /\ w.pc = "done"
  /\ w.previous # NoResult
  /\ w.lost
  /\ w.result = "success"
  /\ Len(w.failed_videos) = 1
  /\ jobs[w.job_id].status # "Complete"

\* ------------------------------------------------- the working directory
\* the positions of the consumer inside process_segments_for_job, after
\* tempfile.mkdtemp
InPipeline ==
  {"video_loop", "find", "check2", "pvs_segment", "pvs_concat", "pvs_except",
   "video_error", "video_timeout", "combine", "upload", "upload_run", "psj_complete"}

C35_CompleteHasArtifact ==
  /\ \A j \in JobIds : jobs[j].status = "Complete" => jobs[j].finalVideoUrl # NoUrl
  /\ "Complete" \in w.wrote =>
        /\ w.setUrl
        /\ w.public_url # NoUrl
        /\ \E o \in bucket : o.key = blob_name(w.job_id) /\ o.job = w.job_id

\* the first write of Complete, by upload_to_gcs, with the fallback URL
C35_Witness ==
  /\ w.pc = "psj_complete"
  /\ jobs[w.job_id].status = "Complete"
  /\ jobs[w.job_id].finalVideoUrl = <<blob_name(w.job_id), "basic">>

\* ------------------------------------------------------- publish failure
\* a step of processVideoJob or resumeVideoJob of the deployment without
\* acquisition that got as far as publishing
PublishStep ==
  /\ http'.handler \in {"processVideoJob_without_acquisition", "resumeVideoJob"}
  /\ nextJob' # nextJob \/ resumes' # resumes
  /\ http'.code \notin {400, 404}

\* the job such a step is about
PublishedJob == IF resumes' # resumes THEN http'.jobId ELSE nextJob'

\* C36: when the publish of processVideoJob or resumeVideoJob fails, the
\* job is Failed with an error and suggestions, the response is 500 and no
\* message is put on the topic; when it does not fail the message is on
\* the topic.
C36_PublishFailureFailsJob ==
  [][PublishStep =>
       IF faults' # faults
       THEN /\ http'.code = 500
            /\ queue' = queue
            /\ jobs'[PublishedJob].status = "Failed"
            /\ jobs'[PublishedJob].error = "Failed to publish job to message queue"
            /\ jobs'[PublishedJob].suggestions # NoSuggestions
       ELSE /\ http'.code \in {200, 201}
            /\ Len(queue') = Len(queue) + 1]_vars

\* resumeVideoJob answered 500 after a failed publish
C36_Witness ==
  /\ http.handler = "resumeVideoJob"
  /\ http.code = 500
  /\ jobs[http.jobId].status = "Failed"
  /\ jobs[http.jobId].suggestions =
        <<"Failed to queue resumed job for processing", "Please try again">>
  /\ queue = <<>>

\* ------------------------------------------------ return of the handler
\* C37: process_video_job ends by returning a dict whose status is success
\* or error, never by raising.
C37_HandlerReturnsDict ==
  w.pc = "done" => w.result \in {"success", "error"}

\* ------------------------------------------- the write after the publish
\* C38: once the consumer of a job's message has written Processing,
\* Uploading or Complete, the job's status is not Queued, whatever the
\* interleaving of the dispatcher's handler with the consumer.
C38_QueuedNeverOverwritesConsumer ==
  (w.pc # "idle" /\ w.wrote \cap {"Processing", "Uploading", "Complete"} # {})
    => jobs[w.job_id].status # "Queued"

\* --------------------------------------------------- the job-level timeout
\* the positions of the thread inside process_segments_for_job of main.py
\* and just after its return
InProcessSegments ==
  InPipeline \cup {"psj_start", "background_pvs_run", "background_pvs_except",
                   "pvj_complete"}

\* C39: once the timeout handler of background_task has fired and written
\* Failed, the writes of process_segments_for_job, which is still running,
\* do not change the job's status to Processing, Uploading or Complete.
C39_TimedOutStaysFailed ==
  (w.timeout_timer = "fired" /\ w.pc \in InProcessSegments) =>
    jobs[w.job_id].status \notin {"Processing", "Uploading", "Complete"}

\* ------------------------------------------- the index and the mounted bucket
\* C40: an asset check_existing_videos_in_gcs reports as available is found
\* by find_video_file_fuse on a mount that mirrors the bucket: its lookup
\* in the pipeline does not fail with 'not found'.
C40_AvailableIsFound ==
  (existing_videos.by = "check_existing_videos_in_gcs" /\ w.pc # "idle") =>
    /\ w.pc = "check2"
    /\ w.exc # "Video file not found in mounted bucket"
====
